---------------------------- MODULE Spec2Model ----------------------------
(***************************************************************************)
(* Operational supervisor of reika-onchain: AgentCore (start / stop / main *)
(* loop / executeDecision), DecisionEngine.makeDecision, WalletManager     *)
(* (sendTransaction and its history) and the NetworkManager health flag.   *)
(*                                                                         *)
(* JavaScript runs one continuation at a time, so every action below is    *)
(* the code that runs from one resumption (a call, the settlement of an    *)
(* awaited promise, a timer, a notification) up to the next await.  An     *)
(* async function that returns or raises settles its promise, and the      *)
(* function awaiting it goes on in a continuation of its own: the ready    *)
(* continuations of other control flows run in between.  Continuations     *)
(* that neither read nor write the program's state (an exception passing   *)
(* through a function that does not handle it, the timer set after a tick) *)
(* are joined to the one next to them.                                     *)
(***************************************************************************)
EXTENDS Integers, Sequences, FiniteSets, TLC

\* ------------------------------------------------------------------ bounds
MaxCalls   == 2   \* start() calls in one behaviour
MaxTicks   == 2   \* readings of Date.now() by runAnalysisIteration
MaxBalance == 1   \* balances reported by the ledger are 0..MaxBalance
MaxErrors  == 1   \* transport-error notifications in one behaviour
MaxValue   == 9   \* values given to updatePerformanceMetrics on its own
MaxStops   == 2   \* stop() calls in a row that are told apart
MaxKeyLen  == 4   \* length of the strings offered as signing keys

\* --------------------------------------------------------------- constants
EventNames == {"started", "decision", "executing", "executed",
               "executionFailed", "error", "stopped"}

ActionTypes == {"SWAP", "PROVIDE_LIQUIDITY", "REMOVE_LIQUIDITY",
                "STAKE", "UNSTAKE", "NONE"}

\* NetworkManager constructor, line 12.
reconnectAttempts == 3

Flows    == 1..MaxCalls
Balances == 0..MaxBalance

\* ----------------------------------------------------- decimal conversion
\* bigint.toString(): the decimal digits of a non-negative integer.
RECURSIVE toString(_)
toString(n) ==
  IF n < 10 THEN <<n>> ELSE Append(toString(n \div 10), n % 10)

\* BigInt(string): the integer denoted by a sequence of decimal digits.
RECURSIVE BigInt(_)
BigInt(s) ==
  IF Len(s) = 0 THEN 0
  ELSE 10 * BigInt(SubSeq(s, 1, Len(s) - 1)) + s[Len(s)]

\* bigint division truncates toward zero.
BigIntDiv(a, b) ==
  IF a >= 0 THEN a \div b ELSE -((-a) \div b)

\* ------------------------------------------------------------------ state
VARIABLES
  listeners,              \* EventEmitter: per event "none" | "ok" | "raises"
  ledger,                 \* the balances the ledger may report for the wallet
  isRunning,              \* AgentCore.isRunning
  state,                  \* AgentCore.state (AgentState)
  lastDecisionTimestamp,  \* DecisionEngine: 0 until a decision is made
  transactionHistory,     \* WalletManager.transactionHistory
  networkHealth,          \* NetworkManager.networkHealth
  provider,               \* NetworkManager.provider: the number of the
                          \* JsonRpcProvider created last
  monitored,              \* providers carrying a "block" and an "error"
                          \* listener, one entry per startBlockMonitoring()
  connecting,             \* initializeConnection() / reconnect() in progress
  errors,                 \* transport-error notifications so far
  proc,                   \* the control flows: start() invocations in
                          \* progress and the main loops they spawned
  clock,                  \* number of Date.now() readings by ticks
  nonce,                  \* transactions broadcast so far
  calls,                  \* start() calls so far
  ended,                  \* the start() or tick that ended in the last step
  snapshot,               \* the AgentState a reader got from getState()
  startedEmitted,         \* a `started` event was emitted
  process,                \* index.ts: signal handlers registered, exit status
  keyManager,             \* a KeyManager: secretKey, encryptedKey
  walletManager,          \* WalletManager: config, keyManager, wallet
  returned,               \* what the last call of the KeyManager returned
  lastStored              \* the key of its last encryptPrivateKey call, if
                          \* no clearStoredKey call came after it

\* The variables of the key custody.
Custody == <<keyManager, walletManager, returned, lastStored>>

vars == <<Custody, listeners, ledger, isRunning, state, lastDecisionTimestamp,
          transactionHistory, networkHealth, provider, monitored, connecting,
          errors, proc, clock, nonce, calls, ended, snapshot, startedEmitted,
          process>>

\* The variables of NetworkManager.
Net == <<networkHealth, provider, monitored, connecting, errors>>

\* Every variable but those of the key custody.
Program == <<listeners, ledger, isRunning, state, lastDecisionTimestamp,
             transactionHistory, Net, proc, clock, nonce, calls, ended,
             snapshot, startedEmitted, process>>

\* ----------------------------------------------------------------- values
\* TransactionConfig as far as sendTransaction looks at it: whether gasLimit
\* is supplied, whether gasPrice is absent, a number of wei or a string
\* parseUnits rejects, and whether parseEther / parseUnits accept the
\* supplied value and gasLimit strings.
TransactionConfigs ==
  [gasLimit : BOOLEAN, gasPrice : {"absent", "wei", "malformed"},
   valid : BOOLEAN]

\* The ethers request sendTransaction builds: whether gasLimit is known,
\* and the gasPrice still to be dealt with.
NoRequest == [gasLimit |-> FALSE, gasPrice |-> "absent"]

\* AgentDecision: transaction tells whether decision.transaction is set; its
\* contents travel as a TransactionConfig.
NoDecision == [action |-> "-", reasoning |-> "-", transaction |-> FALSE]

\* The two synthetic decisions of makeDecision.
ThrottledDecision ==
  [action |-> "NONE", reasoning |-> "Minimum decision interval not reached",
   transaction |-> FALSE]

\* Mutant: the synthetic decision of the catch block asks for an action.
ErrorDecision_Acts ==
  [action |-> "SWAP", reasoning |-> "Error in decision making",
   transaction |-> FALSE]

ErrorDecision ==
  [action |-> "NONE", reasoning |-> "Error in decision making",
   transaction |-> FALSE]

\* The actions of the strategies explored.  The code tells NONE and
\* PROVIDE_LIQUIDITY from the rest; SWAP stands for the rest.
ExploredActions == {"NONE", "PROVIDE_LIQUIDITY", "SWAP"}

\* createDecisionFromStrategy: whatever action and transactionParams the
\* parsed strategy carries.
StrategyDecisions ==
  {[action |-> a, reasoning |-> "strategy", transaction |-> t] :
     a \in ExploredActions \cap ActionTypes, t \in BOOLEAN}

\* An emitted event: its name, a tag for its payload and what getState()
\* shows of activeStrategies to a listener while it is delivered.
Ev(name, tag, seen) == [name |-> name, tag |-> tag, seen |-> seen]

\* A control flow: a start() invocation and, once it resolved, the main
\* loop it spawned.  The flows in progress occupy the slots 1, 2, .. in the
\* order of their start() calls.
\*   ev    the events emitted so far by the start() or tick in progress
\*   sent  sendTransaction was called in this tick
\*   own   lastDecisionTimestamp was last set by this loop
\*   fresh no stop() was called since this flow's start() was called
\*   dup   when this flow's start() was called, an earlier start(), called
\*         after the last stop(), was pending or had resolved
IdleProc == [pc |-> "idle", dup |-> FALSE, fresh |-> FALSE, own |-> FALSE,
             now |-> 0, ev |-> <<>>, dec |-> NoDecision, tx |-> NoRequest,
             hash |-> 0, via |-> 0, success |-> FALSE, sent |-> FALSE]

\* The report of the start() or tick that ended in the last step.  pc: for
\* a start() its outcome, for a tick "sleep" or "died".
NothingEnded == [kind |-> "none", k |-> 0, pc |-> "-", dup |-> FALSE,
                 now |-> 0, ev |-> <<>>, dec |-> NoDecision,
                 tx |-> NoRequest, sent |-> FALSE]

\* Subscriptions of index.ts: a listener on every event but `stopped`.
IndexListeners ==
  [e \in EventNames |-> IF e = "stopped" THEN "none" ELSE "ok"]

\* Consumers may subscribe to any subset; a listener is user code and may
\* raise.  The profiles explored: index.ts, index.ts without its `error`
\* listener, and index.ts with one of its other listeners raising.
ListenerProfiles ==
  {IndexListeners, [IndexListeners EXCEPT !["error"] = "none"]}
  \cup {[IndexListeners EXCEPT ![e] = "raises"] :
          e \in EventNames \ {"stopped", "error"}}

\* A connection sequence in progress: initializeConnection ("init") or
\* reconnect; i is reconnect's loop index, on the provider it created, and
\* pc "validate" while getNetwork is awaited, "validated" once
\* validateNetwork has returned and its caller is to resume, "delay" while
\* the timer of lines 75-77 runs, after a validateNetwork that failed as
\* why says.
Attempt(kind, i, on) ==
  [kind |-> kind, i |-> i, on |-> on, pc |-> "validate", why |-> "none"]

\* AgentCore constructor, lines 49-59.
InitialState ==
  [lastAnalysis |-> 0, currentBalance |-> toString(0),
   performanceMetrics |-> [startTime |-> 0, initialValue |-> toString(0),
                           currentValue |-> toString(0), roi |-> 0],
   activeStrategies |-> <<>>]

\* The process of index.ts once the agent is constructed and its listeners
\* are subscribed (lines 10-74): no signal handler yet, not exited (exit
\* is "none" or the exit status in decimal).
ProcessUp == [handlers |-> FALSE, exit |-> "none"]

\* No getState() was called yet.
NoSnapshot == [held |-> FALSE, then |-> InitialState]

\* ------------------------------------------------------------- KeyManager
\* Strings are sequences of characters.  The characters that occur, each
\* with its UTF-8 code (all are ASCII).
Chars == <<"0", "1", "2", "3", "4", "5", "6", "7", "8", "9", "a", "b", "c",
           "d", "e", "f", "x", ":">>

CharCode ==
  [c \in {Chars[j] : j \in 1..Len(Chars)} |->
     LET i == CHOOSE j \in 1..Len(Chars) : Chars[j] = c
     IN  IF i <= 10 THEN 47 + i
         ELSE IF i <= 16 THEN 86 + i
         ELSE IF c = "x" THEN 120 ELSE 58]

\* Buffer.toString("utf8") of one byte: its character, or the replacement
\* character for a byte that is none of Chars.
CharOf ==
  [b \in 0..255 |->
     IF \E c \in DOMAIN CharCode : CharCode[c] = b
     THEN CHOOSE c \in DOMAIN CharCode : CharCode[c] = b
     ELSE "?"]

utf8(text) == [i \in 1..Len(text) |-> CharCode[text[i]]]

fromUtf8(bytes) == [i \in 1..Len(bytes) |-> CharOf[bytes[i]]]

\* Buffer.toString("hex") and Buffer.from(.., "hex"): two digits per byte.
HexDigit(n) == Chars[n + 1]

HexValue ==
  [c \in {Chars[j] : j \in 1..16} |-> (CHOOSE j \in 1..16 : Chars[j] = c) - 1]

toHex(bytes) ==
  [i \in 1..(2 * Len(bytes)) |->
     IF i % 2 = 1 THEN HexDigit(bytes[(i + 1) \div 2] \div 16)
     ELSE HexDigit(bytes[i \div 2] % 16)]

fromHex(text) ==
  [i \in 1..(Len(text) \div 2) |->
     16 * HexValue[text[2 * i - 1]] + HexValue[text[2 * i]]]

\* The strings offered as raw keys: every string of up to MaxKeyLen of
\* these characters.
KeyChars == {"0", "1", "x"}

RawKeys == UNION {[1..n -> KeyChars] : n \in 0..MaxKeyLen}

\* new ethers.Wallet(key), as validatePrivateKey (lines 225-232) and
\* decryptPrivateKey (line 208) use it: a string that does not start with
\* "0x" gets that prefix, and what follows the prefix must be the hex
\* digits of a non-zero scalar, KeyDigits of them.
KeyDigits == 2

validatePrivateKey(privateKey) ==
  LET prefixed == Len(privateKey) >= 2 /\ privateKey[1] = "0"
                    /\ privateKey[2] = "x"
      digits == IF prefixed THEN SubSeq(privateKey, 3, Len(privateKey))
                ELSE privateKey
  IN  /\ Len(digits) = KeyDigits
      /\ \A i \in 1..Len(digits) : digits[i] \in {"0", "1"}
      /\ \E i \in 1..Len(digits) : digits[i] # "0"

\* The master secrets offered: strings of one repeated character.
Repeat(c, n) == [i \in 1..n |-> c]

minSecretLength == 32

Secrets == {Repeat("a", minSecretLength - 1), Repeat("a", minSecretLength),
            Repeat("b", minSecretLength + 1)}

\* KeyManager constructor, lines 161-167: the secrets it accepts.
AcceptedSecrets == {s \in Secrets : Len(s) >= minSecretLength}

\* getEncryptionKey, lines 169-171: scrypt of the secret with a fixed
\* salt, here a key of one byte.
RECURSIVE Sum(_)
Sum(bytes) ==
  IF bytes = <<>> THEN 0
  ELSE (Len(bytes) * bytes[Len(bytes)]
          + Sum(SubSeq(bytes, 1, Len(bytes) - 1))) % 256

getEncryptionKey(secretKey) == Sum(utf8(secretKey))

\* The initialization vectors crypto.randomBytes may return, one byte each.
IVs == {0, 165}

\* aes-256-cbc with blocks of one byte: the block cipher is a keyed
\* permutation of the bytes, each block is combined with the ciphertext
\* block before it (the first with the IV) by exclusive or, and the padding
\* of PKCS#7 is one more block, holding the number of padding bytes.
RECURSIVE Xor(_, _)
Xor(a, b) ==
  IF a = 0 THEN b
  ELSE IF b = 0 THEN a
  ELSE ((a + b) % 2) + 2 * Xor(a \div 2, b \div 2)

EncryptBlock(key, b) == (5 * Xor(b, key) + key) % 256

DecryptBlock(key, c) == Xor((205 * (c + 256 - key)) % 256, key)

RECURSIVE CbcEncrypt(_, _, _)
CbcEncrypt(key, before, plain) ==
  IF plain = <<>> THEN <<>>
  ELSE LET c == EncryptBlock(key, Xor(plain[1], before))
       IN  <<c>> \o CbcEncrypt(key, c, Tail(plain))

CbcDecrypt(key, iv, cipher) ==
  [i \in 1..Len(cipher) |->
     Xor(DecryptBlock(key, cipher[i]),
         IF i = 1 THEN iv ELSE cipher[i - 1])]

\* Mutant: the IV written in front of the ciphertext is not the one used.
encrypted_IvDropped(secretKey, iv, privateKey) ==
  toHex(<<0>>) \o <<":">>
    \o toHex(CbcEncrypt(getEncryptionKey(secretKey), iv,
                        Append(utf8(privateKey), 1)))

\* encryptPrivateKey, lines 173-186: the string it assigns to encryptedKey.
encrypted(secretKey, iv, privateKey) ==
  toHex(<<iv>>) \o <<":">>
    \o toHex(CbcEncrypt(getEncryptionKey(secretKey), iv,
                        Append(utf8(privateKey), 1)))

\* The same, tabulated for the calls of encryptPrivateKey.
encryptedBy ==
  [secretKey \in AcceptedSecrets |->
     [iv \in IVs |->
        [privateKey \in RawKeys |-> encrypted(secretKey, iv, privateKey)]]]

\* String.split(":"), its first two parts (line 197).
Before(text) ==
  IF \E i \in 1..Len(text) : text[i] = ":"
  THEN SubSeq(text, 1, (CHOOSE i \in 1..Len(text) :
                          text[i] = ":"
                            /\ \A j \in 1..(i - 1) : text[j] # ":") - 1)
  ELSE text

After(text) == SubSeq(text, Len(Before(text)) + 2, Len(text))

\* decryptPrivateKey, lines 191-215: what it returns, or the error it
\* throws.  null is the empty string here, which line 192 treats alike.
null == <<>>

decrypted(secretKey, encryptedKey) ==
  IF encryptedKey = null
  THEN [ok |-> FALSE, error |-> "No encrypted key available", value |-> <<>>]
  ELSE LET iv == fromHex(Before(encryptedKey))
           data == fromHex(Before(After(encryptedKey)))
           plain == CbcDecrypt(getEncryptionKey(secretKey),
                               IF iv = <<>> THEN 0 ELSE iv[1], data)
           padded == plain # <<>> /\ plain[Len(plain)] = 1
           text == fromUtf8(SubSeq(plain, 1, Len(plain) - 1))
       IN  IF iv # <<>> /\ padded /\ validatePrivateKey(text)
           THEN [ok |-> TRUE, error |-> "", value |-> text]
           ELSE [ok |-> FALSE, error |-> "Failed to decrypt private key",
                 value |-> <<>>]

\* WalletManager constructor and initializeWallet, lines 16-36, for a
\* connection that getProvider() hands out: config is kept as a field
\* (line 16), the key of the configuration is stored in a KeyManager of
\* its own and decrypted again, and wallet is the signer made of it.
WalletManagerOf(config, secretKey, iv) ==
  LET stored == encrypted(secretKey, iv, config.privateKey)
  IN  [config     |-> config,
       keyManager |-> [secretKey |-> secretKey, encryptedKey |-> stored],
       wallet     |-> [privateKey |-> decrypted(secretKey, stored).value,
                       provider   |-> 0]]

\* No method of the KeyManager was called yet.
NothingReturned ==
  [op |-> "none", arg |-> <<>>, ok |-> TRUE, error |-> "", value |-> <<>>]

NoKey == [any |-> FALSE, key |-> <<>>]

\* The KeyManagers and the WalletManager after construction, for the given
\* master secrets, signing keys of the configuration and IVs.
InitCustody(secrets, keys, ivs) ==
  /\ \E secretKey \in secrets \cap AcceptedSecrets :
       /\ keyManager = [secretKey |-> secretKey, encryptedKey |-> null]
       /\ \E privateKey \in {k \in keys : validatePrivateKey(k)},
             iv \in ivs :
            walletManager =
              WalletManagerOf([privateKey |-> privateKey], secretKey, iv)
  /\ returned = NothingReturned
  /\ lastStored = NoKey

\* The state after construction but for the keys.
InitParts(profiles, balances) ==
  /\ listeners \in profiles
  /\ ledger = balances
  /\ isRunning = FALSE
  /\ state = InitialState
  /\ lastDecisionTimestamp = 0
  /\ transactionHistory = <<>>
  /\ networkHealth = FALSE
  /\ provider = 0
  /\ monitored = <<>>
  /\ connecting = {Attempt("init", 0, 0)}
  /\ errors = 0
  /\ proc = [k \in Flows |-> IdleProc]
  /\ clock = 0
  /\ nonce = 0
  /\ calls = 0
  /\ ended = NothingEnded
  /\ snapshot = NoSnapshot
  /\ startedEmitted = FALSE
  /\ process = ProcessUp

\* The key custody of the agent: one master secret, key and IV.
AgentCustody ==
  InitCustody({Repeat("a", minSecretLength)}, {<<"0", "x", "0", "1">>}, {0})

\* The state after construction, for the given listener profiles and
\* balances of the wallet.
InitWith(profiles, balances) ==
  /\ InitParts(profiles, balances)
  /\ AgentCustody

\* Every listener profile, the wallet holding one balance throughout.
Init == InitWith(ListenerProfiles, {MaxBalance})

\* The subscriptions of index.ts, the wallet's balance changing at will.
InitLedger == InitWith({IndexListeners}, Balances)

\* --------------------------------------------------------- event delivery
\* EventEmitter.emit: a raising listener propagates to the emitter, and
\* emit("error", ..) with no `error` listener raises by itself.
emitRaises(name) ==
  \/ listeners[name] = "raises"
  \/ name = "error" /\ listeners[name] = "none"

\* A continuation works on w = [st, hist, p]: AgentState, the transaction
\* history and the record of the control flow that is running.
emit(w, name, tag) ==
  [w EXCEPT !.p.ev = Append(@, Ev(name, tag, w.st.activeStrategies))]

\* ------------------------------------------------------- AgentCore, loop
\* runMainLoop, lines 109-117, once the rejection of runAnalysisIteration
\* has reached it: the catch block, then the sleep.  An exception raised
\* inside the catch block rejects runMainLoop's promise.
loopCatch(w) ==
  LET w1 == emit(w, "error", "runMainLoop")
  IN  [w1 EXCEPT !.p.pc = IF emitRaises("error") THEN "died" ELSE "sleep"]

\* An exception leaves runAnalysisIteration: its promise is rejected, and
\* runMainLoop, which awaits it at line 108, goes on in a continuation of
\* its own.
iterationRaises(w) == [w EXCEPT !.p.pc = "caught"]

\* runAnalysisIteration, lines 149-151; its return resumes runMainLoop at
\* line 108, which does nothing but set the timer of line 117.
endIteration(w) ==
  [w EXCEPT !.st.lastAnalysis = w.p.now, !.p.pc = "sleep"]

\* executeDecision returns: runAnalysisIteration, which awaits it at line
\* 146, goes on in a continuation of its own.
executionReturns(w) == [w EXCEPT !.p.pc = "x_done"]

\* executeDecision, lines 172-178: the catch block.  An exception raised
\* inside it leaves executeDecision and, at line 146, runAnalysisIteration.
execCatch(w) ==
  LET w1 == emit(w, "error", "executeDecision")
  IN  IF emitRaises("error") THEN iterationRaises(w1)
      ELSE executionReturns(w1)

\* The tag pushed by handleSuccessfulExecution: `LP_${result.hash}`.
LPTag(hash) == <<"LP", hash>>

\* Mutant: `executed` is emitted before the tag is appended.
handleSuccessfulExecution_EmitsFirst(w, result) ==
  LET w1 == emit(w, "executed", w.p.dec.action)
      w2 == IF w.p.dec.action = "PROVIDE_LIQUIDITY"
            THEN [w1 EXCEPT !.st.activeStrategies =
                                Append(@, LPTag(result.hash))]
            ELSE w1
  IN  IF emitRaises("executed") THEN execCatch(w2)
      ELSE executionReturns(w2)

\* Lines 181-196, called at line 168.
handleSuccessfulExecution(w, result) ==
  LET w1 == IF w.p.dec.action = "PROVIDE_LIQUIDITY"
            THEN [w EXCEPT !.st.activeStrategies =
                               Append(@, LPTag(result.hash))]
            ELSE w
      w2 == emit(w1, "executed", w.p.dec.action)
  IN  IF emitRaises("executed") THEN execCatch(w2)
      ELSE executionReturns(w2)

\* Lines 198-208, called at line 170.
handleFailedExecution(w, result) ==
  LET w1 == emit(w, "executionFailed", w.p.dec.action)
  IN  IF emitRaises("executionFailed") THEN execCatch(w1)
      ELSE executionReturns(w1)

\* ------------------------------------------- WalletManager.sendTransaction
TransactionResult(hash, success, error) ==
  [hash |-> hash, success |-> success, error |-> error]

\* Lines 100-108: the result is recorded and returned; executeDecision,
\* which awaits it at line 165, goes on in a continuation of its own.
\* status is the receipt's status.
sendResolved(w, status) ==
  LET result == TransactionResult(w.p.hash, status = 1, "")
  IN  [w EXCEPT !.hist = Append(@, result), !.p.success = result.success,
                !.p.pc = "x_resolved"]

\* Mutant: the catch block signals the error without recording it.
sendRejected_Unrecorded(w, message) == [w EXCEPT !.p.pc = "x_rejected"]

\* Lines 109-119: the failed result is recorded with an empty hash and the
\* error is signalled again: the promise of sendTransaction is rejected,
\* and executeDecision, which awaits it at line 165, goes on in a
\* continuation of its own.
sendRejected(w, message) ==
  LET failedResult == TransactionResult(0, FALSE, message)
  IN  [w EXCEPT !.hist = Append(@, failedResult), !.p.pc = "x_rejected"]

\* Lines 82-93: without a gasPrice the fee data is read through
\* getProvider(), which raises when the connection is unhealthy; then the
\* transaction is handed to the signer.
sendFeeStep(w) ==
  IF w.p.tx.gasPrice = "absent"
  THEN IF ~networkHealth
       THEN sendRejected(w, "Network connection is unhealthy")
       ELSE [w EXCEPT !.p.pc = "tx_fee"]
  ELSE IF w.p.tx.gasPrice = "malformed"
  THEN sendRejected(w, "ethers")
  ELSE [w EXCEPT !.p.pc = "tx_send"]

\* Mutant: the connection's health is not looked at on entry.
sendTransaction_Unchecked(w, config) ==
  LET w1 == [w EXCEPT !.p.sent = TRUE,
                      !.p.tx = [gasLimit |-> config.gasLimit,
                                gasPrice |-> config.gasPrice]]
  IN  IF ~config.valid
      THEN sendRejected(w1, "ethers")
      ELSE IF ~config.gasLimit
      THEN [w1 EXCEPT !.p.pc = "tx_gas"]
      ELSE sendFeeStep(w1)

\* Lines 60-80, up to the first await.
sendTransaction(w, config) ==
  LET w1 == [w EXCEPT !.p.sent = TRUE,
                      !.p.tx = [gasLimit |-> config.gasLimit,
                                gasPrice |-> config.gasPrice]]
  IN  IF ~networkHealth
      THEN sendRejected(w1, "Network connection is unhealthy")
      ELSE IF ~config.valid
      THEN sendRejected(w1, "ethers")
      ELSE IF ~config.gasLimit
      THEN [w1 EXCEPT !.p.pc = "tx_gas"]
      ELSE sendFeeStep(w1)

\* ------------------------------------------- AgentCore, decision handling
\* Mutant: `executing` is not emitted before the transaction is sent.
executeDecision_Unannounced(w, config) ==
  IF ~w.p.dec.transaction
  THEN execCatch(w)
  ELSE sendTransaction(w, config)

\* executeDecision, lines 154-165, up to its await of sendTransaction.
executeDecision(w, config) ==
  IF ~w.p.dec.transaction
  THEN execCatch(w)
  ELSE LET w1 == emit(w, "executing", w.p.dec.action)
       IN  IF emitRaises("executing") THEN execCatch(w1)
           ELSE sendTransaction(w1, config)

\* makeDecision returns dec (lines 24-29, 63, 66-71): runAnalysisIteration,
\* which awaits it at line 131, goes on in a continuation of its own.
decisionReturns(w, dec) == [w EXCEPT !.p.dec = dec, !.p.pc = "decided"]

\* Mutant: a decision that reports a failure is also reported as `error`.
afterDecision_ReportsFailure(w, config) ==
  LET dec == w.p.dec
      w1 == IF dec.reasoning = ErrorDecision.reasoning
            THEN emit(w, "error", "makeDecision") ELSE w
      w2 == emit(w1, "decision", dec.reasoning)
  IN  IF emitRaises("decision") THEN iterationRaises(w2)
      ELSE IF dec.action # "NONE" /\ dec.transaction
      THEN executeDecision(w2, config)
      ELSE endIteration(w2)

\* Mutant: the transaction alone decides whether the decision is executed.
afterDecision_IgnoresAction(w, config) ==
  LET dec == w.p.dec
      w1 == emit(w, "decision", dec.reasoning)
  IN  IF emitRaises("decision") THEN iterationRaises(w1)
      ELSE IF dec.transaction
      THEN executeDecision(w1, config)
      ELSE endIteration(w1)

\* runAnalysisIteration, lines 133-151, resumed with the decision
\* makeDecision returned (config: the contents of its transaction when it
\* has one).
afterDecision(w, config) ==
  LET dec == w.p.dec
      w1 == emit(w, "decision", dec.reasoning)
  IN  IF emitRaises("decision") THEN iterationRaises(w1)
      ELSE IF dec.action # "NONE" /\ dec.transaction
      THEN executeDecision(w1, config)
      ELSE endIteration(w1)

\* Mutant: the result's success is not looked at.
afterSend_AnyStatus(w) ==
  handleSuccessfulExecution(w, TransactionResult(w.p.hash, w.p.success, ""))

\* executeDecision, lines 167-171, resumed with the result sendTransaction
\* returned.
afterSend(w) ==
  LET result == TransactionResult(w.p.hash, w.p.success, "")
  IN  IF result.success THEN handleSuccessfulExecution(w, result)
      ELSE handleFailedExecution(w, result)

\* Mutant: the quotient is rounded toward minus infinity.
updatePerformanceMetrics_Floors(st) ==
  LET initial == BigInt(st.performanceMetrics.initialValue)
      current == BigInt(st.performanceMetrics.currentValue)
  IN  IF initial = 0
      THEN [st EXCEPT !.performanceMetrics.roi = 0]
      ELSE [st EXCEPT !.performanceMetrics.roi =
                         ((current - initial) * 10000) \div initial]

\* updatePerformanceMetrics, lines 210-221.  roi is kept in hundredths of a
\* percent: the code stores this integer divided by 100.
updatePerformanceMetrics(st) ==
  LET initial == BigInt(st.performanceMetrics.initialValue)
      current == BigInt(st.performanceMetrics.currentValue)
  IN  IF initial = 0
      THEN [st EXCEPT !.performanceMetrics.roi = 0]
      ELSE [st EXCEPT !.performanceMetrics.roi =
                         BigIntDiv((current - initial) * 10000, initial)]

\* runAnalysisIteration, lines 122-125: read the time, ask for the balance.
beginIteration(p) ==
  [p EXCEPT !.pc = "balance", !.now = clock + 1, !.ev = <<>>,
            !.dec = NoDecision, !.tx = NoRequest, !.hash = 0,
            !.success = FALSE, !.sent = FALSE]

World(k) == [st |-> state, hist |-> transactionHistory, p |-> proc[k]]

\* What is left of a tick between two ticks of its loop.
Sleeping(p) ==
  [IdleProc EXCEPT !.pc = "sleep", !.dup = p.dup, !.fresh = p.fresh,
                   !.own = p.own]

Ended(kind, k, p) ==
  [kind |-> kind, k |-> k, pc |-> p.pc, dup |-> p.dup, now |-> p.now,
   ev |-> p.ev, dec |-> p.dec, tx |-> p.tx, sent |-> p.sent]

\* The flows once flow k is over: the later ones move down one slot.
Without(k) ==
  [j \in Flows |-> IF j < k THEN proc[j]
                   ELSE IF j < MaxCalls THEN proc[j + 1] ELSE IdleProc]

\* The effect of a continuation of the tick of control flow k.
Becomes(k, w) ==
  /\ state' = w.st
  /\ transactionHistory' = w.hist
  /\ ended' = IF w.p.pc \in {"sleep", "died"} THEN Ended("tick", k, w.p)
              ELSE NothingEnded
  /\ proc' = IF w.p.pc = "died" THEN Without(k)
             ELSE IF w.p.pc = "sleep"
             THEN [proc EXCEPT ![k] = Sleeping(w.p)]
             ELSE [proc EXCEPT ![k] = w.p]

\* ------------------------------------------------------- AgentCore.start
\* start(), lines 62-69, up to the await of validateConnection.
start(k) ==
  /\ proc[k].pc = "idle"
  /\ \A j \in 1..(k - 1) : proc[j].pc # "idle"
  /\ calls < MaxCalls
  /\ calls' = calls + 1
  /\ LET dup == \E j \in Flows : proc[j].fresh
         p   == [proc[k] EXCEPT !.dup = dup, !.fresh = TRUE]
     IN  IF isRunning
         THEN /\ ended' = Ended("start", k,
                                [p EXCEPT !.pc = "AlreadyRunning"])
              /\ UNCHANGED proc
         ELSE /\ ended' = NothingEnded
              /\ proc' = [proc EXCEPT ![k] = [p EXCEPT !.pc = "s_validate"]]
  /\ UNCHANGED <<Custody, listeners,
                 ledger, isRunning, state, lastDecisionTimestamp,
                 transactionHistory, Net, clock, nonce, snapshot,
                 startedEmitted, process>>

\* start(), lines 89-95: the `error` event carries the message of what
\* was caught, and what was caught is raised again (line 94) unless the
\* emit of line 90 raises first: with no `error` listener it raises
\* ERR_UNHANDLED_ERROR, and a raising listener propagates.  start() is
\* rejected with what got out.
startCatch(p, reason) ==
  [p EXCEPT !.pc = IF listeners["error"] = "none" THEN "UnhandledError"
                   ELSE IF emitRaises("error") THEN "ListenerError"
                   ELSE reason,
            !.ev = Append(@, Ev("error", reason, state.activeStrategies))]

\* The effect of a start() of flow k that is rejected as p.
Rejects(k, p) ==
  /\ proc' = Without(k)
  /\ ended' = Ended("start", k, p)

\* validateConnection has settled (getChainData succeeded or failed):
\* lines 69-75.
startValidated(k) ==
  /\ proc[k].pc = "s_validate"
  /\ \E isConnected \in BOOLEAN :
       IF isConnected
       THEN /\ proc' = [proc EXCEPT ![k].pc = "s_balance"]
            /\ ended' = NothingEnded
       ELSE Rejects(k, startCatch(proc[k], "ConnectionFailure"))
  /\ UNCHANGED <<Custody, listeners,
                 ledger, isRunning, state, lastDecisionTimestamp,
                 transactionHistory, Net, clock, nonce, calls, snapshot,
                 startedEmitted, process>>

\* The initial getBalance failed: lines 89-95.
startBalanceFailed(k) ==
  /\ proc[k].pc = "s_balance"
  /\ Rejects(k, startCatch(proc[k], "BalanceFailure"))
  /\ UNCHANGED <<Custody, listeners,
                 ledger, isRunning, state, lastDecisionTimestamp,
                 transactionHistory, Net, clock, nonce, calls, snapshot,
                 startedEmitted, process>>

\* Mutant: start() leaves initialValue as it was.
startBalance_KeepsInitial(k) ==
  /\ proc[k].pc = "s_balance"
  /\ clock < MaxTicks
  /\ \E b \in ledger :
       LET balance == toString(b)
           p1 == [proc[k] EXCEPT
                    !.ev = Append(@, Ev("started", balance,
                                        state.activeStrategies))]
       IN  /\ state' = [state EXCEPT
                          !.currentBalance = balance,
                          !.performanceMetrics.currentValue = balance]
           /\ isRunning' = TRUE
           /\ IF emitRaises("started")
              THEN /\ Rejects(k, startCatch(p1, "ListenerError"))
                   /\ clock' = clock
              ELSE /\ proc' = [proc EXCEPT ![k] = beginIteration(p1)]
                   /\ ended' = Ended("start", k,
                                     [p1 EXCEPT !.pc = "resolved"])
                   /\ clock' = clock + 1
  /\ startedEmitted' = TRUE
  /\ UNCHANGED <<Custody, listeners,
                 ledger, lastDecisionTimestamp, transactionHistory,
                 Net, nonce, calls, snapshot, process>>

\* The initial getBalance returned: lines 75-88, and runMainLoop up to the
\* first tick's await of getBalance.  The `started` event carries the
\* balance.
startBalance(k) ==
  /\ proc[k].pc = "s_balance"
  /\ clock < MaxTicks
  /\ \E b \in ledger :
       LET balance == toString(b)
           p1 == [proc[k] EXCEPT
                    !.ev = Append(@, Ev("started", balance,
                                        state.activeStrategies))]
       IN  /\ state' = [state EXCEPT
                          !.currentBalance = balance,
                          !.performanceMetrics.initialValue = balance,
                          !.performanceMetrics.currentValue = balance]
           /\ isRunning' = TRUE
           /\ IF emitRaises("started")
              THEN /\ Rejects(k, startCatch(p1, "ListenerError"))
                   /\ clock' = clock
              ELSE /\ proc' = [proc EXCEPT ![k] = beginIteration(p1)]
                   /\ ended' = Ended("start", k,
                                     [p1 EXCEPT !.pc = "resolved"])
                   /\ clock' = clock + 1
  /\ startedEmitted' = TRUE
  /\ UNCHANGED <<Custody, listeners,
                 ledger, lastDecisionTimestamp, transactionHistory,
                 Net, nonce, calls, snapshot, process>>

\* The report of a stop(): the event it emitted and, as k, how many
\* stop() calls in a row this one completes (told apart up to MaxStops).
Stopped(n) ==
  [NothingEnded EXCEPT
     !.kind = "stop", !.k = n,
     !.ev = <<Ev("stopped", "stop", state.activeStrategies)>>]

\* stop(), lines 98-103.
stop ==
  /\ isRunning' = FALSE
  /\ proc' = [k \in Flows |-> [proc[k] EXCEPT !.fresh = FALSE]]
  /\ ended' = Stopped(IF ended.kind # "stop" THEN 1
                      ELSE IF ended.k < MaxStops THEN ended.k + 1
                      ELSE MaxStops)
  /\ UNCHANGED <<Custody, listeners, ledger, state, lastDecisionTimestamp,
                 transactionHistory, Net, clock, nonce, calls, snapshot,
                 startedEmitted, process>>

\* ------------------------------------------------- AgentCore.runMainLoop
\* The sleep of line 117 is over: the loop condition of line 106 and, when
\* it holds, the next tick up to its await of getBalance; when it does not,
\* runMainLoop returns.
timer(k) ==
  /\ proc[k].pc = "sleep"
  /\ IF isRunning
     THEN /\ clock < MaxTicks
          /\ proc' = [proc EXCEPT ![k] = beginIteration(@)]
          /\ clock' = clock + 1
     ELSE /\ proc' = Without(k)
          /\ clock' = clock
  /\ ended' = NothingEnded
  /\ UNCHANGED <<Custody, listeners,
                 ledger, isRunning, state, lastDecisionTimestamp,
                 transactionHistory, Net, nonce, calls, snapshot,
                 startedEmitted, process>>

Rest == <<Custody, listeners,
          ledger, isRunning, lastDecisionTimestamp, Net, clock,
          nonce, calls, snapshot, startedEmitted, process>>

\* The tick's getBalance failed: line 125 raises.
tickBalanceFailed(k) ==
  /\ proc[k].pc = "balance"
  /\ Becomes(k, iterationRaises(World(k)))
  /\ UNCHANGED Rest

\* Mutant: the refresh writes currentBalance and leaves the metrics.
tickBalance_BalanceOnly(k) ==
  /\ proc[k].pc = "balance"
  /\ \E b \in ledger, throttled \in BOOLEAN :
       LET balance == toString(b)
           st1 == [state EXCEPT !.currentBalance = balance]
           w == [World(k) EXCEPT !.st = st1]
       IN  /\ throttled => lastDecisionTimestamp # 0 /\ ~proc[k].own
           /\ IF throttled
              THEN Becomes(k, decisionReturns(w, ThrottledDecision))
              ELSE Becomes(k, [w EXCEPT !.p.pc = "d_chain"])
  /\ UNCHANGED Rest

\* The tick's getBalance returned: lines 125-131 and makeDecision lines
\* 19-33, up to its return or first await.  The throttle compares
\* wall-clock seconds; a loop's own previous
\* decision is a full sleep old, so only a decision made by another loop
\* can be younger than MIN_DECISION_INTERVAL.
tickBalance(k) ==
  /\ proc[k].pc = "balance"
  /\ \E b \in ledger, throttled \in BOOLEAN :
       LET balance == toString(b)
           st1 == [state EXCEPT
                     !.currentBalance = balance,
                     !.performanceMetrics.currentValue = balance]
           w == [World(k) EXCEPT !.st = updatePerformanceMetrics(st1)]
       IN  /\ throttled => lastDecisionTimestamp # 0 /\ ~proc[k].own
           /\ IF throttled
              THEN Becomes(k, decisionReturns(w, ThrottledDecision))
              ELSE Becomes(k, [w EXCEPT !.p.pc = "d_chain"])
  /\ UNCHANGED Rest

\* makeDecision: analyzeChainState has settled (line 33); analyzeGasMarket
\* then asks getProvider() for the connection, which raises when unhealthy.
\* Any exception becomes the synthetic decision of lines 64-72.
decisionChain(k) ==
  /\ proc[k].pc = "d_chain"
  /\ \E ok \in BOOLEAN :
       IF ok /\ networkHealth
       THEN Becomes(k, [World(k) EXCEPT !.p.pc = "d_strategy"])
       ELSE Becomes(k, decisionReturns(World(k), ErrorDecision))
  /\ UNCHANGED Rest

\* makeDecision: market data gathering, the remote reasoning calls or the
\* parsing of the response failed (lines 34-57, 64-72).
decisionFailed(k) ==
  /\ proc[k].pc = "d_strategy"
  /\ Becomes(k, decisionReturns(World(k), ErrorDecision))
  /\ UNCHANGED Rest

\* makeDecision: the last remote call has settled and the response is
\* parsed (lines 57-63): the decision is made of it, lastDecisionTimestamp
\* is set and the decision is returned.
decisionMadeOf(decisions, k) ==
  /\ proc[k].pc = "d_strategy"
  /\ \E d \in decisions :
       LET others == [j \in Flows |-> [proc[j] EXCEPT !.own = (j = k)]]
           w == [World(k) EXCEPT !.p = others[k]]
       IN  proc' = [others EXCEPT ![k] = decisionReturns(w, d).p]
  /\ lastDecisionTimestamp' = 1
  /\ ended' = NothingEnded
  /\ UNCHANGED <<Custody, listeners,
                 ledger, isRunning, state, transactionHistory, Net, clock,
                 nonce, calls, snapshot, startedEmitted, process>>

decisionMade(k) == decisionMadeOf(StrategyDecisions, k)

\* runAnalysisIteration is resumed at line 131 with the decision: lines
\* 133-151, and executeDecision and sendTransaction up to the first await.
\* The contents of the decision's transaction are looked at here first.
decisionReturnedWith(configs, k) ==
  /\ proc[k].pc = "decided"
  /\ \E config \in configs :
       Becomes(k, afterDecision(World(k), config))
  /\ UNCHANGED Rest

decisionReturned(k) == decisionReturnedWith(TransactionConfigs, k)

\* executeDecision is resumed at line 165 with the result of
\* sendTransaction: lines 167-171.
sendReturned(k) ==
  /\ proc[k].pc = "x_resolved"
  /\ Becomes(k, afterSend(World(k)))
  /\ UNCHANGED Rest

\* executeDecision is resumed at line 165 with the exception of
\* sendTransaction: lines 172-178.
sendRaised(k) ==
  /\ proc[k].pc = "x_rejected"
  /\ Becomes(k, execCatch(World(k)))
  /\ UNCHANGED Rest

\* runAnalysisIteration is resumed at line 146, executeDecision having
\* returned: lines 149-151.
executeDecisionReturned(k) ==
  /\ proc[k].pc = "x_done"
  /\ Becomes(k, endIteration(World(k)))
  /\ UNCHANGED Rest

\* runMainLoop is resumed at line 108 with the exception of
\* runAnalysisIteration: lines 109-117.
iterationRaised(k) ==
  /\ proc[k].pc = "caught"
  /\ Becomes(k, loopCatch(World(k)))
  /\ UNCHANGED Rest

\* ----------------------------------- WalletManager.sendTransaction, steps
\* estimateGas has settled (line 79).
sendGas(k) ==
  /\ proc[k].pc = "tx_gas"
  /\ \E ok \in BOOLEAN :
       IF ok
       THEN Becomes(k, sendFeeStep([World(k) EXCEPT
                                      !.p.tx.gasLimit = TRUE]))
       ELSE Becomes(k, sendRejected(World(k), "Failed to estimate gas"))
  /\ UNCHANGED Rest

\* getFeeData has settled (lines 84-87).
sendFee(k) ==
  /\ proc[k].pc = "tx_fee"
  /\ \E ok \in BOOLEAN :
       IF ok
       THEN Becomes(k, [World(k) EXCEPT !.p.pc = "tx_send",
                                        !.p.tx.gasPrice = "wei"])
       ELSE Becomes(k, sendRejected(World(k), "ethers"))
  /\ UNCHANGED Rest

\* wallet.sendTransaction has settled (line 93): the transaction was signed
\* and broadcast and has a hash, or signing / broadcasting failed.  via is
\* the connection it went through, the one this.wallet was made with
\* (lines 32-35).
sendBroadcast(k) ==
  /\ proc[k].pc = "tx_send"
  /\ \E ok \in BOOLEAN :
       IF ok
       THEN /\ Becomes(k, [World(k) EXCEPT
                             !.p.pc = "tx_wait",
                             !.p.hash = nonce + 1,
                             !.p.via = walletManager.wallet.provider])
            /\ nonce' = nonce + 1
       ELSE /\ Becomes(k, sendRejected(World(k), "ethers"))
            /\ nonce' = nonce
  /\ UNCHANGED <<Custody, listeners,
                 ledger, isRunning, lastDecisionTimestamp, Net,
                 clock, calls, snapshot, startedEmitted, process>>

\* waitForTransaction has settled (lines 96-108): a receipt with status 1
\* or 0, or a failure (a null receipt included).
sendReceipt(k) ==
  /\ proc[k].pc = "tx_wait"
  /\ \/ \E status \in {0, 1} : Becomes(k, sendResolved(World(k), status))
     \/ Becomes(k, sendRejected(World(k),
                                "Failed to wait for transaction"))
  /\ UNCHANGED Rest

\* ---------------------------------------------------------- NetworkManager
\* getProvider, lines 107-112: the connection, or the failure.
getProvider ==
  IF networkHealth THEN [ok |-> TRUE, provider |-> provider]
  ELSE [ok |-> FALSE, error |-> "Network connection is unhealthy"]

AgentData == <<Custody, listeners,
               ledger, isRunning, state, lastDecisionTimestamp,
               transactionHistory, proc, clock, nonce, calls, snapshot,
               startedEmitted>>

Agent == <<AgentData, process>>

\* validateNetwork, lines 32-48: the chain id read is the configured one,
\* getNetwork was rejected, or the chain id is another one (lines 37-41);
\* both failures leave networkHealth false and are raised again (lines
\* 44-47).
ValidateOutcomes == {"ok", "unreachable", "mismatch"}

\* A promise rejected with nobody handling it, seen from the process that
\* runs the program: the runtime reports it and goes on, or it ends the
\* process with status 1 (the default since Node 15).  A host that is left
\* out is {process}.
Unhandled == {process, [process EXCEPT !.exit = "1"]}

\* startBlockMonitoring, lines 50-61: the listeners go on this.provider as
\* it is when the call is made.
startBlockMonitoring == Append(monitored, provider)

\* validateNetwork called by initializeConnection: getNetwork has settled
\* (lines 34-47).  It sets networkHealth and returns, or it fails, which
\* initializeConnection raises again (lines 23-29): that rejects the
\* promise the constructor dropped (line 16) and leaves the process as one
\* of host says.
initializeConnectionIn(host) ==
  /\ \E s \in connecting :
       /\ s.kind = "init" /\ s.pc = "validate"
       /\ \E r \in ValidateOutcomes :
            /\ networkHealth' = (r = "ok")
            /\ connecting' =
                 IF r = "ok"
                 THEN (connecting \ {s}) \cup {[s EXCEPT !.pc = "validated"]}
                 ELSE connecting \ {s}
            /\ process' \in IF r = "ok" THEN {process} ELSE host
  /\ ended' = NothingEnded
  /\ UNCHANGED <<AgentData, provider, monitored, errors>>

initializeConnection == initializeConnectionIn({process})

\* initializeConnection is resumed at line 21, validateNetwork having
\* returned: line 22.
initializeConnectionResumed ==
  /\ \E s \in connecting :
       /\ s.kind = "init" /\ s.pc = "validated"
       /\ connecting' = connecting \ {s}
  /\ monitored' = startBlockMonitoring
  /\ ended' = NothingEnded
  /\ UNCHANGED <<Agent, networkHealth, provider, errors>>

\* Mutant: a block notification also resets the balance of AgentState.
onBlock_TouchesState ==
  /\ Len(monitored) > 0
  /\ networkHealth' = TRUE
  /\ state' = [state EXCEPT !.currentBalance = toString(0)]
  /\ ended' = NothingEnded
  /\ UNCHANGED <<Custody, listeners, ledger, isRunning,
                 lastDecisionTimestamp, transactionHistory, proc, clock,
                 nonce, calls, snapshot, startedEmitted, process, provider,
                 monitored, connecting, errors>>

\* The "block" listener of startBlockMonitoring (lines 51-54), on any
\* provider that carries one.
onBlock ==
  /\ Len(monitored) > 0
  /\ networkHealth' = TRUE
  /\ ended' = NothingEnded
  /\ UNCHANGED <<Agent, provider, monitored, connecting, errors>>

\* The "error" listener of startBlockMonitoring (lines 56-60), on any
\* provider that carries one, and reconnect (lines 63-67) up to its await of
\* validateNetwork.
onErrorUpTo(n) ==
  /\ Len(monitored) > 0
  /\ errors < n
  /\ errors' = errors + 1
  /\ networkHealth' = FALSE
  /\ provider' = provider + 1
  /\ connecting' = connecting \cup {Attempt("reconnect", 0, provider + 1)}
  /\ ended' = NothingEnded
  /\ UNCHANGED <<Agent, monitored>>

onError == onErrorUpTo(MaxErrors)

\* validateNetwork called by reconnect: getNetwork has settled (lines
\* 34-47).  It sets networkHealth and returns, or it fails and reconnect
\* starts the timer of its catch block (lines 70-77).
reconnectValidated ==
  /\ \E s \in connecting, r \in ValidateOutcomes :
       /\ s.kind = "reconnect" /\ s.pc = "validate"
       /\ networkHealth' = (r = "ok")
       /\ connecting' =
            (connecting \ {s})
              \cup {IF r = "ok" THEN [s EXCEPT !.pc = "validated"]
                    ELSE [s EXCEPT !.pc = "delay", !.why = r]}
  /\ ended' = NothingEnded
  /\ UNCHANGED <<Agent, provider, monitored, errors>>

\* reconnect is resumed at line 67, validateNetwork having returned: lines
\* 68-69.  The listeners go on this.provider as it is now.
reconnectResumed ==
  /\ \E s \in connecting :
       /\ s.kind = "reconnect" /\ s.pc = "validated"
       /\ connecting' = connecting \ {s}
  /\ monitored' = startBlockMonitoring
  /\ ended' = NothingEnded
  /\ UNCHANGED <<Agent, networkHealth, provider, errors>>

\* reconnect: the delay is over (lines 64-66, 80-82): the next attempt, or
\* the failure once the attempts are used up.  The failure is raised into
\* the "error" listener, which is async and awaits reconnect with no catch
\* (lines 56-60): its promise is rejected with nobody handling it.
reconnectDelayedIn(host) ==
  /\ \E s \in connecting :
       /\ s.pc = "delay"
       /\ IF s.i + 1 < reconnectAttempts
          THEN /\ provider' = provider + 1
               /\ connecting' =
                    (connecting \ {s})
                      \cup {Attempt("reconnect", s.i + 1, provider + 1)}
               /\ process' = process
          ELSE /\ provider' = provider
               /\ connecting' = connecting \ {s}
               /\ process' \in host
  /\ ended' = NothingEnded
  /\ UNCHANGED <<AgentData, networkHealth, monitored, errors>>

reconnectDelayed == reconnectDelayedIn({process})

Next ==
  \/ \E k \in Flows : start(k)
  \/ \E k \in Flows : startValidated(k)
  \/ \E k \in Flows : startBalanceFailed(k)
  \/ \E k \in Flows : startBalance(k)
  \/ stop
  \/ \E k \in Flows : timer(k)
  \/ \E k \in Flows : tickBalanceFailed(k)
  \/ \E k \in Flows : tickBalance(k)
  \/ \E k \in Flows : decisionChain(k)
  \/ \E k \in Flows : decisionFailed(k)
  \/ \E k \in Flows : decisionMade(k)
  \/ \E k \in Flows : decisionReturned(k)
  \/ \E k \in Flows : sendGas(k)
  \/ \E k \in Flows : sendFee(k)
  \/ \E k \in Flows : sendBroadcast(k)
  \/ \E k \in Flows : sendReceipt(k)
  \/ \E k \in Flows : sendReturned(k)
  \/ \E k \in Flows : sendRaised(k)
  \/ \E k \in Flows : executeDecisionReturned(k)
  \/ \E k \in Flows : iterationRaised(k)
  \/ initializeConnection
  \/ initializeConnectionResumed
  \/ onBlock
  \/ onError
  \/ reconnectValidated
  \/ reconnectResumed
  \/ reconnectDelayed

\* The agent and its connection monitor: start() and stop() called at
\* will, up to MaxCalls start() calls.  Its behaviours are explored in two
\* parts, SpecOnce and SpecLoops.
Spec == Init /\ [][Next]_vars

\* start() is called once.
startOnce ==
  /\ calls = 0
  /\ start(1)

\* The agent started once, and its connection monitor.
NextOnce ==
  \/ startOnce
  \/ \E k \in Flows : startValidated(k)
  \/ \E k \in Flows : startBalanceFailed(k)
  \/ \E k \in Flows : startBalance(k)
  \/ stop
  \/ \E k \in Flows : timer(k)
  \/ \E k \in Flows : tickBalanceFailed(k)
  \/ \E k \in Flows : tickBalance(k)
  \/ \E k \in Flows : decisionChain(k)
  \/ \E k \in Flows : decisionFailed(k)
  \/ \E k \in Flows : decisionMade(k)
  \/ \E k \in Flows : decisionReturned(k)
  \/ \E k \in Flows : sendGas(k)
  \/ \E k \in Flows : sendFee(k)
  \/ \E k \in Flows : sendBroadcast(k)
  \/ \E k \in Flows : sendReceipt(k)
  \/ \E k \in Flows : sendReturned(k)
  \/ \E k \in Flows : sendRaised(k)
  \/ \E k \in Flows : executeDecisionReturned(k)
  \/ \E k \in Flows : iterationRaised(k)
  \/ initializeConnection
  \/ initializeConnectionResumed
  \/ onBlock
  \/ onError
  \/ reconnectValidated
  \/ reconnectResumed
  \/ reconnectDelayed

SpecOnce == Init /\ [][NextOnce]_vars

\* start() and stop() called at will, on a connection that reports no
\* transport error.
NextLoops ==
  \/ \E k \in Flows : start(k)
  \/ \E k \in Flows : startValidated(k)
  \/ \E k \in Flows : startBalanceFailed(k)
  \/ \E k \in Flows : startBalance(k)
  \/ stop
  \/ \E k \in Flows : timer(k)
  \/ \E k \in Flows : tickBalanceFailed(k)
  \/ \E k \in Flows : tickBalance(k)
  \/ \E k \in Flows : decisionChain(k)
  \/ \E k \in Flows : decisionFailed(k)
  \/ \E k \in Flows : decisionMade(k)
  \/ \E k \in Flows : decisionReturned(k)
  \/ \E k \in Flows : sendGas(k)
  \/ \E k \in Flows : sendFee(k)
  \/ \E k \in Flows : sendBroadcast(k)
  \/ \E k \in Flows : sendReceipt(k)
  \/ \E k \in Flows : sendReturned(k)
  \/ \E k \in Flows : sendRaised(k)
  \/ \E k \in Flows : executeDecisionReturned(k)
  \/ \E k \in Flows : iterationRaised(k)
  \/ initializeConnection
  \/ initializeConnectionResumed
  \/ onBlock

SpecLoops == InitWith({IndexListeners}, {MaxBalance}) /\ [][NextLoops]_vars

\* A provider that decides on no action or on a provision of liquidity
\* with its transaction.
LiquidityDecisions ==
  {d \in StrategyDecisions :
     \/ d.action = "NONE" /\ ~d.transaction
     \/ d.action = "PROVIDE_LIQUIDITY" /\ d.transaction}

\* Transactions that leave the gas limit and the gas price to the wallet.
BareConfigs ==
  {c \in TransactionConfigs : ~c.gasLimit /\ c.gasPrice = "absent"}

\* The same with such decisions and transactions only.
NextLedgerLoops ==
  \/ \E k \in Flows : start(k)
  \/ \E k \in Flows : startValidated(k)
  \/ \E k \in Flows : startBalanceFailed(k)
  \/ \E k \in Flows : startBalance(k)
  \/ stop
  \/ \E k \in Flows : timer(k)
  \/ \E k \in Flows : tickBalanceFailed(k)
  \/ \E k \in Flows : tickBalance(k)
  \/ \E k \in Flows : decisionChain(k)
  \/ \E k \in Flows : decisionFailed(k)
  \/ \E k \in Flows : decisionMadeOf(LiquidityDecisions, k)
  \/ \E k \in Flows : decisionReturnedWith(BareConfigs, k)
  \/ \E k \in Flows : sendGas(k)
  \/ \E k \in Flows : sendFee(k)
  \/ \E k \in Flows : sendBroadcast(k)
  \/ \E k \in Flows : sendReceipt(k)
  \/ \E k \in Flows : sendReturned(k)
  \/ \E k \in Flows : sendRaised(k)
  \/ \E k \in Flows : executeDecisionReturned(k)
  \/ \E k \in Flows : iterationRaised(k)
  \/ initializeConnection
  \/ initializeConnectionResumed
  \/ onBlock


\* start() and stop() called at will for the wallet whose balance
\* changes.
SpecLedgerLoops == InitLedger /\ [][NextLedgerLoops]_vars

\* One call of start() for the wallet whose balance changes, on the
\* connection that may fail and reconnect.
SpecLedger == InitLedger /\ [][NextOnce]_vars

\* NetworkManager on its own.
NextNet ==
  \/ initializeConnection
  \/ initializeConnectionResumed
  \/ onBlock
  \/ onError
  \/ reconnectValidated
  \/ reconnectResumed
  \/ reconnectDelayed

SpecNet == Init /\ [][NextNet]_vars

\* The same with one more error notification, which may arrive while the
\* sequence the one before started is still running.
NextErrors ==
  \/ initializeConnection
  \/ initializeConnectionResumed
  \/ onBlock
  \/ onErrorUpTo(MaxErrors + 1)
  \/ reconnectValidated
  \/ reconnectResumed
  \/ reconnectDelayed

SpecErrors == InitWith({IndexListeners}, {MaxBalance}) /\ [][NextErrors]_vars

\* --------------------------------------------------------- index.ts, main
\* main is suspended at line 77: it has called start() and has neither
\* registered the signal handlers nor exited.
MainAwaits == process.exit = "none" /\ ~process.handlers /\ calls > 0

\* No invocation of start() is in progress.
StartSettled ==
  \A k \in Flows : proc[k].pc \notin {"s_validate", "s_balance"}

\* The start() main awaits has settled and main's continuation is ready.
\* The continuations and callbacks that are ready as well may run before
\* it.
MainResumes == MainAwaits /\ StartSettled

\* start() resolves once it has emitted `started` and the emit has
\* returned (AgentCore lines 81-88); every other way out rejects it.
MainStarted == startedEmitted /\ ~emitRaises("started")

\* The process is up.
Up == process.exit = "none"

\* Lines 76-77: main calls agent.start(), its only caller.
mainStart ==
  /\ process.exit = "none"
  /\ calls = 0
  /\ start(1)

\* Lines 77-97: start() resolved and the signal handlers are registered, or
\* it was rejected and the catch block exits with status 1.
mainResumed ==
  /\ MainResumes
  /\ process' = IF MainStarted
                THEN [process EXCEPT !.handlers = TRUE]
                ELSE [process EXCEPT !.exit = "1"]
  /\ ended' = NothingEnded
  /\ UNCHANGED <<Custody, listeners,
                 ledger, isRunning, state, lastDecisionTimestamp,
                 transactionHistory, Net, proc, clock, nonce, calls,
                 snapshot, startedEmitted>>

\* Lines 80-90, the SIGINT and SIGTERM handlers: agent.stop() (AgentCore
\* lines 98-103), then process.exit(0).
signal ==
  /\ Up
  /\ process.handlers
  /\ isRunning' = FALSE
  /\ proc' = [k \in Flows |-> [proc[k] EXCEPT !.fresh = FALSE]]
  /\ ended' = Stopped(1)
  /\ process' = [process EXCEPT !.exit = "0"]
  /\ UNCHANGED <<Custody, listeners, ledger, state, lastDecisionTimestamp,
                 transactionHistory, Net, clock, nonce, calls, snapshot,
                 startedEmitted>>

NextMain ==
  \/ mainStart
  \/ mainResumed
  \/ signal
  \/ Up /\ \E k \in Flows : startValidated(k)
  \/ Up /\ \E k \in Flows : startBalanceFailed(k)
  \/ Up /\ \E k \in Flows : startBalance(k)
  \/ Up /\ \E k \in Flows : timer(k)
  \/ Up /\ \E k \in Flows : tickBalanceFailed(k)
  \/ Up /\ \E k \in Flows : tickBalance(k)
  \/ Up /\ \E k \in Flows : decisionChain(k)
  \/ Up /\ \E k \in Flows : decisionFailed(k)
  \/ Up /\ \E k \in Flows : decisionMade(k)
  \/ Up /\ \E k \in Flows : decisionReturned(k)
  \/ Up /\ \E k \in Flows : sendGas(k)
  \/ Up /\ \E k \in Flows : sendFee(k)
  \/ Up /\ \E k \in Flows : sendBroadcast(k)
  \/ Up /\ \E k \in Flows : sendReceipt(k)
  \/ Up /\ \E k \in Flows : sendReturned(k)
  \/ Up /\ \E k \in Flows : sendRaised(k)
  \/ Up /\ \E k \in Flows : executeDecisionReturned(k)
  \/ Up /\ \E k \in Flows : iterationRaised(k)
  \/ Up /\ initializeConnectionIn(Unhandled)
  \/ Up /\ initializeConnectionResumed
  \/ Up /\ onBlock
  \/ Up /\ onError
  \/ Up /\ reconnectValidated
  \/ Up /\ reconnectResumed
  \/ Up /\ reconnectDelayedIn(Unhandled)

\* The program of index.ts: one agent, started once by main, stopped by a
\* signal, and its connection monitor.
SpecMain == InitWith({IndexListeners}, {MaxBalance}) /\ [][NextMain]_vars

\* ----------------------------------- WalletManager called from elsewhere
\* MEMORY_CONFIG.maxTransactionHistory.
maxTransactionHistory == 1000

\* sendTransaction called by another caller than a tick, while the
\* connection is unhealthy: lines 60-63, then the catch block, lines
\* 109-119, whose exception goes to that caller.
callSendTransaction ==
  /\ ~networkHealth
  /\ Len(transactionHistory) <= maxTransactionHistory
  /\ \E config \in TransactionConfigs :
       LET w == [st |-> state, hist |-> transactionHistory,
                 p |-> IdleProc]
       IN  transactionHistory' = sendTransaction(w, config).hist
  /\ ended' = NothingEnded
  /\ UNCHANGED <<Rest, state, proc>>

\* Lines 145-147.
clearTransactionHistory ==
  /\ transactionHistory' = <<>>
  /\ ended' = NothingEnded
  /\ UNCHANGED <<Rest, state, proc>>

NextWallet ==
  \/ callSendTransaction
  \/ clearTransactionHistory

\* The wallet of an agent that was not started, before the connection is
\* validated, under calls of its public methods.
InitWallet == InitWith({IndexListeners}, {MaxBalance})

SpecWallet == InitWallet /\ [][NextWallet]_vars

\* ------------------------------------------------------ AgentCore.getState
\* Lines 223-225: `{ ...this.state }` copies the fields of this.state into
\* a new object.  lastAnalysis and currentBalance are a number and a
\* string; performanceMetrics and activeStrategies are references to an
\* object and an array, which the agent never replaces (it assigns to
\* their fields and pushes), so the copy shares them with this.state.
\* `then` is this.state as it was at the call.
getState ==
  /\ snapshot' = [held |-> TRUE, then |-> state]
  /\ ended' = NothingEnded
  /\ UNCHANGED <<Custody, listeners,
                 ledger, isRunning, state, lastDecisionTimestamp,
                 transactionHistory, Net, proc, clock, nonce, calls,
                 startedEmitted, process>>

\* What the reader sees through the object it got from getState().
Through(s) ==
  [lastAnalysis       |-> s.then.lastAnalysis,
   currentBalance     |-> s.then.currentBalance,
   performanceMetrics |-> state.performanceMetrics,
   activeStrategies   |-> state.activeStrategies]

NextReader == NextOnce \/ getState

\* The agent with the listeners of index.ts, started once, and a reader of
\* its state.
SpecReader == InitWith({IndexListeners}, {MaxBalance}) /\ [][NextReader]_vars

\* --------------------------------- updatePerformanceMetrics on its own
\* The state in which a tick calls updatePerformanceMetrics (line 128):
\* initialValue as seeded by a start(), currentBalance and currentValue
\* as just refreshed, each the decimal string of a balance.
InitRoi ==
  /\ state \in
       {[InitialState EXCEPT
           !.currentBalance = toString(current),
           !.performanceMetrics.initialValue = toString(initial),
           !.performanceMetrics.currentValue = toString(current)] :
          initial \in 0..MaxValue, current \in 0..MaxValue}
  /\ listeners = IndexListeners
  /\ ledger = {BigInt(state.currentBalance)}
  /\ isRunning = TRUE
  /\ lastDecisionTimestamp = 0
  /\ transactionHistory = <<>>
  /\ networkHealth = FALSE
  /\ provider = 0
  /\ monitored = <<>>
  /\ connecting = {Attempt("init", 0, 0)}
  /\ errors = 0
  /\ proc = [k \in Flows |-> IdleProc]
  /\ clock = 0
  /\ nonce = 0
  /\ calls = 0
  /\ ended = NothingEnded
  /\ snapshot = NoSnapshot
  /\ startedEmitted = FALSE
  /\ process = ProcessUp
  /\ AgentCustody

\* Line 128; clock counts the computation.
computeRoi ==
  /\ clock = 0
  /\ state' = updatePerformanceMetrics(state)
  /\ clock' = clock + 1
  /\ ended' = NothingEnded
  /\ UNCHANGED <<Custody, listeners, ledger, isRunning, lastDecisionTimestamp,
                 transactionHistory, Net, proc, nonce, calls, snapshot,
                 startedEmitted, process>>

SpecRoi == InitRoi /\ [][computeRoi]_vars

\* ------------------------------------------------------ KeyManager, calls
\* encryptPrivateKey, lines 173-189, called with any string.
encryptPrivateKey ==
  /\ \E privateKey \in RawKeys, iv \in IVs :
       /\ keyManager' =
            [keyManager EXCEPT
               !.encryptedKey =
                  encryptedBy[keyManager.secretKey][iv][privateKey]]
       /\ returned' = [NothingReturned EXCEPT !.op = "encryptPrivateKey",
                                              !.arg = privateKey]
       /\ lastStored' = [any |-> TRUE, key |-> privateKey]
  /\ UNCHANGED <<walletManager, Program>>

\* decryptPrivateKey, lines 191-215.
decryptPrivateKey ==
  /\ LET r == decrypted(keyManager.secretKey, keyManager.encryptedKey)
     IN  returned' = [NothingReturned EXCEPT !.op = "decryptPrivateKey",
                                             !.ok = r.ok,
                                             !.error = r.error,
                                             !.value = r.value]
  /\ UNCHANGED <<keyManager, walletManager, lastStored, Program>>

\* clearStoredKey, lines 221-223.
clearStoredKey ==
  /\ keyManager' = [keyManager EXCEPT !.encryptedKey = null]
  /\ returned' = [NothingReturned EXCEPT !.op = "clearStoredKey"]
  /\ lastStored' = NoKey
  /\ UNCHANGED <<walletManager, Program>>

NextKey ==
  \/ encryptPrivateKey
  \/ decryptPrivateKey
  \/ clearStoredKey

\* A KeyManager of any accepted master secret, called with any string,
\* and the WalletManager of a signing key with and without the prefix.
InitKey ==
  /\ InitParts({IndexListeners}, {MaxBalance})
  /\ InitCustody(Secrets, {<<"0", "x", "0", "1">>, <<"1", "1">>}, {0})

SpecKey == InitKey /\ [][NextKey]_vars

\* ---------------------------------------------------------- construction
\* NetworkManager as its constructor returns (lines 5-17): networkHealth
\* is false (line 7) and initializeConnection, called at line 16 and not
\* awaited, is suspended at its first await.
NetworkManagerNew ==
  [networkHealth |-> FALSE, provider |-> 0,
   connecting |-> {Attempt("init", 0, 0)}]

\* No WalletManager exists.
NoWalletManager ==
  [config     |-> [privateKey |-> <<>>],
   keyManager |-> [secretKey |-> <<>>, encryptedKey |-> null],
   wallet     |-> [privateKey |-> <<>>, provider |-> 0]]

Thrown(error, net) ==
  [ok |-> FALSE, error |-> error, object |-> NoWalletManager, net |-> net]

\* new WalletManager(config, secretKey), lines 16-36 as written: the
\* KeyManager constructor (line 17), the NetworkManager constructor (lines
\* 18-21) and initializeWallet (lines 25-36), whose getProvider() call
\* (line 34) reads the networkHealth of the NetworkManager just made.
\* net: whether the NetworkManager was made.
WalletManagerNew(config, secretKey, iv) ==
  LET stored == encrypted(secretKey, iv, config.privateKey)
      key == decrypted(secretKey, stored)
  IN  IF Len(secretKey) < minSecretLength
      THEN Thrown("Secret key must be at least 32 characters long", FALSE)
      ELSE IF ~validatePrivateKey(config.privateKey)
      THEN Thrown("Invalid private key provided", TRUE)
      ELSE IF ~key.ok
      THEN Thrown(key.error, TRUE)
      ELSE IF ~NetworkManagerNew.networkHealth
      THEN Thrown("Network connection is unhealthy", TRUE)
      ELSE [ok |-> TRUE, error |-> "", net |-> TRUE,
            object |-> WalletManagerOf(config, secretKey, iv)]

\* The config module, which index.ts imports (lines 2-8) before it calls
\* main(); its text is at core/ChainAnalyzer.ts lines 511-530.  It throws
\* for the first required variable, in the order of the list, that is
\* unset or empty (lines 526-530).  AVALANCHE_RPC_URL, CHAIN_ID and
\* OPENROUTER_API_KEY are set here.
requiredEnvVars == <<"WALLET_PRIVATE_KEY", "WALLET_SECRET_KEY">>

MissingEnv ==
  [WALLET_PRIVATE_KEY |->
     "Missing required environment variable: WALLET_PRIVATE_KEY",
   WALLET_SECRET_KEY |->
     "Missing required environment variable: WALLET_SECRET_KEY"]

importConfig(env) ==
  LET missing == {i \in 1..Len(requiredEnvVars) :
                    env[requiredEnvVars[i]] = <<>>}
      first == CHOOSE i \in missing : \A j \in missing : i <= j
  IN  IF missing = {} THEN [ok |-> TRUE, error |-> ""]
      ELSE [ok |-> FALSE, error |-> MissingEnv[requiredEnvVars[first]]]

\* The values WALLET_SECRET_KEY takes: the master secrets and the empty
\* string.
EnvSecrets == Secrets \cup {<<>>}

\* main, lines 10-26: the check of WALLET_SECRET_KEY (lines 12-16), then
\* new AgentCore and with it new WalletManager (AgentCore.ts line 35).
mainTry(env, iv) ==
  IF env.WALLET_SECRET_KEY = <<>>
  THEN Thrown("WALLET_SECRET_KEY environment variable is required", FALSE)
  ELSE WalletManagerNew([privateKey |-> env.WALLET_PRIVATE_KEY],
                        env.WALLET_SECRET_KEY, iv)

\* index.ts run as a program, lines 2-26 and 91-97.  When the import of
\* the config module throws, main() is never called: nothing is
\* constructed, nothing is pending, and the uncaught exception ends the
\* process with status 1.  Otherwise main constructs the agent from the
\* master secret and the signing key; an exception of the constructor
\* reaches main's catch block, which exits with status 1.
mainConstructs ==
  /\ process.exit = "none"
  /\ returned.op = "none"
  /\ \E secretKey \in EnvSecrets, privateKey \in RawKeys, iv \in IVs :
       LET env == [WALLET_PRIVATE_KEY |-> privateKey,
                   WALLET_SECRET_KEY |-> secretKey]
           imported == importConfig(env)
           r == IF imported.ok THEN mainTry(env, iv)
                ELSE Thrown(imported.error, FALSE)
       IN  /\ walletManager' = r.object
           /\ returned' = [NothingReturned EXCEPT
                             !.op = IF imported.ok THEN "WalletManager"
                                    ELSE "config",
                             !.arg = privateKey,
                             !.ok = r.ok,
                             !.error = r.error]
           /\ connecting' = IF r.net THEN NetworkManagerNew.connecting
                            ELSE connecting
           /\ process' = IF r.ok THEN process
                         ELSE [process EXCEPT !.exit = "1"]
  /\ UNCHANGED <<keyManager, lastStored, listeners, ledger, isRunning,
                 state, lastDecisionTimestamp, transactionHistory,
                 networkHealth, provider, monitored, errors, proc, clock,
                 nonce, calls, ended, snapshot, startedEmitted>>

\* Nothing is constructed yet.
InitBoot ==
  /\ listeners = IndexListeners
  /\ ledger = {MaxBalance}
  /\ isRunning = FALSE
  /\ state = InitialState
  /\ lastDecisionTimestamp = 0
  /\ transactionHistory = <<>>
  /\ networkHealth = FALSE
  /\ provider = 0
  /\ monitored = <<>>
  /\ connecting = {}
  /\ errors = 0
  /\ proc = [k \in Flows |-> IdleProc]
  /\ clock = 0
  /\ nonce = 0
  /\ calls = 0
  /\ ended = NothingEnded
  /\ snapshot = NoSnapshot
  /\ startedEmitted = FALSE
  /\ process = ProcessUp
  /\ keyManager = NoWalletManager.keyManager
  /\ walletManager = NoWalletManager
  /\ returned = NothingReturned
  /\ lastStored = NoKey

\* The program of index.ts from its imports to the end of the agent's
\* construction.  The other specifications begin in the state the
\* constructors would leave had getProvider() handed out the connection
\* at line 34.
SpecBoot == InitBoot /\ [][mainConstructs]_vars

\* ------------------------------------------------------------- properties
Count(ev, name) == Cardinality({i \in 1..Len(ev) : ev[i].name = name})

Last(s) == s[Len(s)]

\* A tick is in flight in control flow k; the main loop of flow k is alive.
InTick(k) ==
  proc[k].pc \in {"balance", "d_chain", "d_strategy", "decided", "tx_gas",
                  "tx_fee", "tx_send", "tx_wait", "x_resolved",
                  "x_rejected", "x_done", "caught"}

Alive(k) == InTick(k) \/ (proc[k].pc = "sleep" /\ isRunning)

TickEnded  == ended.kind = "tick"
StartEnded == ended.kind = "start"

\* The tick that ended got the synthetic decision of makeDecision's catch
\* block: its Decision Provider call failed.
ProviderFailed ==
  TickEnded /\ ended.dec.reasoning = "Error in decision making"

\* The tick that ended called sendTransaction, which has settled.
SendSettled == TickEnded /\ ended.sent

\* ... and sendTransaction signalled an exception: neither handler ran.
ExecutorRaised ==
  /\ SendSettled
  /\ Count(ended.ev, "executed") = 0
  /\ Count(ended.ev, "executionFailed") = 0

\* The tick that ended got a decision that asks for no execution.
NothingToExecute ==
  /\ TickEnded
  /\ ended.dec # NoDecision
  /\ (ended.dec.action = "NONE" \/ ~ended.dec.transaction)

\* C1: while the supervisor is Running, a tick that ends, whatever its
\* outcome and whatever the listeners, leaves its loop in the sleep that
\* precedes the next tick: the loop never terminates because of a tick.
C1_LoopSurvivesTick ==
  (TickEnded /\ isRunning) => ended.pc = "sleep"

\* C2: in every reachable state at most one main loop is alive and at most
\* one tick is in flight; stated for the states whose control flows all
\* stem from a start() called with no other start() outstanding, which
\* leaves the case of C3 aside.
C2_SingleLoop ==
  (\A k \in Flows : ~proc[k].dup) =>
    /\ Cardinality({k \in Flows : Alive(k)}) <= 1
    /\ Cardinality({k \in Flows : InTick(k)}) <= 1

\* C3: a start() called when an earlier start(), with no stop() in between,
\* is pending or has resolved, fails with AlreadyRunning.
C3_SecondStartRejected ==
  (StartEnded /\ ended.dup) => ended.pc = "AlreadyRunning"

\* C4 as stated: a tick whose Decision Provider call fails emits exactly
\* one `error` event, and the next tick is scheduled.
C4_OneErrorEvent ==
  ProviderFailed => (Count(ended.ev, "error") = 1 /\ ended.pc = "sleep")

\* C4 amended: a tick whose Decision Provider call fails emits no `error`
\* event for it; the failure is delivered as the tick's one `decision`
\* event, and once that delivery returns the next tick is scheduled.
C4_FailureIsADecision ==
  (ProviderFailed /\ ~emitRaises("decision")) =>
    /\ Count(ended.ev, "error") = 0
    /\ Len(ended.ev) = 1
    /\ ended.ev[1].name = "decision"
    /\ ended.ev[1].tag = "Error in decision making"
    /\ ended.pc = "sleep"

C4_Witness ==
  /\ ProviderFailed
  /\ ~emitRaises("decision")
  /\ isRunning
  /\ ended.pc = "sleep"

\* C5: when decision generation fails, the tick gets a decision with action
\* NONE and no transaction, emits `decision` for it, does not call
\* sendTransaction and (the `decision` listener returning) completes with
\* lastAnalysis set to the tick's time.
C5_FailureYieldsNone ==
  (ProviderFailed /\ ~emitRaises("decision")) =>
    /\ ended.dec.action = "NONE"
    /\ ~ended.dec.transaction
    /\ Count(ended.ev, "decision") = 1
    /\ ~ended.sent
    /\ ended.pc = "sleep"
    /\ state.lastAnalysis = ended.now

C5_Witness ==
  /\ ProviderFailed
  /\ ~emitRaises("decision")
  /\ ended.now = MaxTicks
  /\ state.lastAnalysis = ended.now

\* C6: when sendTransaction signals an exception, executeDecision catches
\* it and emits exactly one `error` event; the loop-level handler is not
\* reached, activeStrategies is unchanged and the tick completes with
\* lastAnalysis set to the tick's time.
C6_ExecutorErrorContained ==
  [][ExecutorRaised' =>
       /\ Count(ended'.ev, "error") = 1
       /\ Last(ended'.ev).tag = "executeDecision"
       /\ state'.activeStrategies = state.activeStrategies
       /\ ended'.pc = "sleep"
       /\ state'.lastAnalysis = ended'.now]_vars

\* Control flow k alone takes a step, from the place pc.
Acts(k, pc) ==
  /\ proc[k].pc = pc
  /\ proc'[k].pc # pc
  /\ \A j \in Flows \ {k} : proc'[j] = proc[j]

\* The places of a tick inside sendTransaction, the call included.
InSend == {"decided", "tx_gas", "tx_fee", "tx_send", "tx_wait"}

\* In this step the sendTransaction call of control flow k settles: it
\* returns a result or signals an exception.
SendReturns(k) ==
  proc[k].pc \in InSend /\ proc'[k].pc = "x_resolved"

SendRaises(k) ==
  proc[k].pc \in InSend /\ proc'[k].pc = "x_rejected"

\* C7: the step in which a sendTransaction call settles appends exactly one
\* result to the history, before the caller goes on, and no other step
\* changes the history; when the call signals an exception the result has
\* success false, an empty hash and the error message, and the exception
\* reaches executeDecision, whose handler reports it.
C7_OneRecordPerCall ==
  [][/\ IF \E k \in Flows : SendReturns(k) \/ SendRaises(k)
        THEN /\ Len(transactionHistory') = Len(transactionHistory) + 1
             /\ SubSeq(transactionHistory', 1, Len(transactionHistory))
                  = transactionHistory
             /\ LET r == Last(transactionHistory')
                IN  IF \E k \in Flows : SendRaises(k)
                    THEN r.hash = 0 /\ ~r.success /\ r.error # ""
                    ELSE r.hash # 0 /\ r.error = ""
        ELSE transactionHistory' = transactionHistory
     /\ \A k \in Flows :
          Acts(k, "x_rejected") =>
            /\ Len(proc'[k].ev) > Len(proc[k].ev)
            /\ proc'[k].ev[Len(proc[k].ev) + 1].name = "error"
            /\ proc'[k].ev[Len(proc[k].ev) + 1].tag = "executeDecision"]_vars

\* The second call of a loop failed waiting for its confirmation and its
\* exception has been reported.
C7_Witness ==
  /\ \E k \in Flows :
       /\ proc[k].pc = "x_done"
       /\ proc[k].sent
       /\ Count(proc[k].ev, "error") = 1
  /\ Len(transactionHistory) = MaxTicks
  /\ Last(transactionHistory).hash = 0
  /\ Last(transactionHistory).error = "Failed to wait for transaction"

\* In this step control flow k gets the result of a reverted transaction
\* from sendTransaction.
GetsReverted(k) == Acts(k, "x_resolved") /\ ~proc[k].success

\* C8: when the transaction is confirmed with status 0, sendTransaction
\* returns a result with success false, which is in the history; the
\* supervisor, given it, emits `executionFailed` and not `executed`,
\* signals no error (the `executionFailed` listener returning) and leaves
\* activeStrategies unchanged, whatever the action.
C8_RevertedIsFailedExecution ==
  [][\A k \in Flows :
       /\ SendReturns(k) =>
            /\ proc[k].pc = "tx_wait"
            /\ transactionHistory' =
                 Append(transactionHistory,
                        TransactionResult(proc[k].hash, proc'[k].success,
                                          ""))
       /\ GetsReverted(k) =>
            /\ Count(proc'[k].ev, "executionFailed") = 1
            /\ Count(proc'[k].ev, "executed") = 0
            /\ state'.activeStrategies = state.activeStrategies
            /\ ~emitRaises("executionFailed") =>
                 /\ Count(proc'[k].ev, "error") = 0
                 /\ proc'[k].pc = "x_done"]_vars

C8_Witness ==
  \E k \in Flows :
    /\ proc[k].pc = "x_done"
    /\ ~proc[k].success
    /\ proc[k].hash # 0
    /\ proc[k].dec.action = "PROVIDE_LIQUIDITY"
    /\ Count(proc[k].ev, "executionFailed") = 1
    /\ Len(transactionHistory) > 0
    /\ ~Last(transactionHistory).success

\* In this step control flow k gets the result of a PROVIDE_LIQUIDITY
\* transaction that succeeded.
GetsLiquidity(k) ==
  /\ Acts(k, "x_resolved")
  /\ proc[k].success
  /\ proc[k].dec.action = "PROVIDE_LIQUIDITY"

\* C9: activeStrategies changes only in the step in which the supervisor
\* is given the result of a PROVIDE_LIQUIDITY decision executed with
\* success: the tag of the transaction's hash is appended, and a listener
\* of `executed` sees the new sequence.  Every other step leaves
\* activeStrategies as it is.
C9_OnlyLiquidityAppends ==
  [][LET before == state.activeStrategies
         after  == state'.activeStrategies
     IN  IF \E k \in Flows : GetsLiquidity(k)
         THEN \A k \in Flows :
                GetsLiquidity(k) =>
                  /\ after = Append(before, LPTag(proc[k].hash))
                  /\ \A i \in 1..Len(proc'[k].ev) :
                       proc'[k].ev[i].name = "executed" =>
                         proc'[k].ev[i].seen = after
                  /\ Count(proc'[k].ev, "executed") = 1
         ELSE after = before]_vars

C9_Witness ==
  /\ \E k \in Flows :
       proc[k].pc = "x_done" /\ Count(proc[k].ev, "executed") = 1
  /\ Len(state.activeStrategies) = MaxTicks

\* C10: a tick whose decision has action NONE or no transaction does not
\* call sendTransaction and emits none of `executing`, `executed`,
\* `executionFailed`; the history changes only in a step in which a
\* sendTransaction call settles, so such a tick appends nothing to it.
C10_NothingExecuted ==
  [][/\ NothingToExecute' =>
          /\ ~ended'.sent
          /\ transactionHistory' = transactionHistory
          /\ Count(ended'.ev, "executing") = 0
          /\ Count(ended'.ev, "executed") = 0
          /\ Count(ended'.ev, "executionFailed") = 0
     /\ transactionHistory' # transactionHistory =>
          \E k \in Flows :
            /\ SendReturns(k) \/ SendRaises(k)
            /\ proc'[k].sent
            /\ proc'[k].dec.action # "NONE"
            /\ proc'[k].dec.transaction]_vars

C10_Witness ==
  /\ NothingToExecute
  /\ ended.dec.action = "SWAP"
  /\ Len(transactionHistory) > 0

\* ------------------------------------------------- sendTransaction, health
Unhealthy == "Network connection is unhealthy"

\* In this step control flow k hands its transaction to the signer (line
\* 93: wallet.sendTransaction is called).  `now` tells the ticks apart.
EntersSend(k) ==
  /\ proc[k].pc \in {"decided", "tx_gas", "tx_fee"}
  /\ proc'[k].pc = "tx_send"
  /\ proc'[k].now = proc[k].now

\* In this step the tick of control flow k calls sendTransaction.
CallsSend(k) ==
  /\ proc[k].pc = "decided"
  /\ proc'[k].sent
  /\ proc'[k].now = proc[k].now

\* C11: whatever notifications of blocks and transport errors arrive
\* between the steps of sendTransaction, and whether or not gasLimit and
\* gasPrice are supplied, a transaction is handed to the signer for
\* signing and broadcasting only while the connection is healthy.
C11_NoBroadcastWhenUnhealthy ==
  [][\A k \in Flows : EntersSend(k) => networkHealth]_vars

\* C12: a sendTransaction called while the connection is unhealthy fails
\* at once with the precondition failure: the call is over within the
\* step, before any gas estimation, fee lookup, signing or broadcast, it
\* is recorded as a failure with no hash, and nothing was broadcast.
C12_UnhealthyCallFailsFirst ==
  [][\A k \in Flows :
       (CallsSend(k) /\ ~networkHealth) =>
         /\ proc'[k].pc = "x_rejected"
         /\ transactionHistory' =
              Append(transactionHistory,
                     TransactionResult(0, FALSE, Unhealthy))
         /\ nonce' = nonce]_vars

\* A call with a gasPrice and no gasLimit failed as unhealthy: only the
\* check on entry can have refused it.
C12_Witness ==
  /\ ~networkHealth
  /\ \E k \in Flows :
       /\ proc[k].pc = "x_rejected"
       /\ proc[k].tx = [gasLimit |-> FALSE, gasPrice |-> "wei"]
  /\ Last(transactionHistory).error = Unhealthy

\* ------------------------------------------------- the transaction history
\* C13: the history never holds more entries than
\* MEMORY_CONFIG.maxTransactionHistory (appends at the cap evict the
\* oldest entry, so the length stays at the cap).
C13_HistoryCapped == Len(transactionHistory) <= maxTransactionHistory

\* C14: the history is append-only: every step leaves the entries it held
\* in place, unmodified and in order, and at most adds entries at the end
\* (the code evicts nothing, so no eviction needs to be excepted).
C14_AppendOnly ==
  [][/\ Len(transactionHistory') >= Len(transactionHistory)
     /\ SubSeq(transactionHistory', 1, Len(transactionHistory))
          = transactionHistory]_vars

\* --------------------------------------------------------------------- roi
Abs(n) == IF n < 0 THEN -n ELSE n

\* q is num / den rounded toward minus infinity; rounded toward zero.
Floored(q, num, den) == q * den <= num /\ num < (q + 1) * den

Truncated(q, num, den) ==
  /\ (num >= 0 => q >= 0) /\ (num <= 0 => q <= 0)
  /\ Abs(q) * den <= Abs(num)
  /\ Abs(num) < (Abs(q) + 1) * den

\* The gain of the metrics m in hundredths of a percent of initialValue,
\* before rounding: numerator and denominator.
GainOf(m) == (BigInt(m.currentValue) - BigInt(m.initialValue)) * 10000

\* C15 as stated: a ROI computation leaves roi at 0 when initialValue is
\* 0 and otherwise at floor((current - initial) * 10000 / initial) / 100,
\* losses included (roi is held here in hundredths of a percent).
C15_RoiIsFloor ==
  [][LET m == state'.performanceMetrics
     IN  IF BigInt(m.initialValue) = 0 THEN m.roi = 0
         ELSE Floored(m.roi, GainOf(m), BigInt(m.initialValue))]_vars

\* C15 amended: a ROI computation leaves roi at 0 when initialValue is 0
\* and otherwise at (current - initial) * 10000 / initial rounded toward
\* zero, over 100: a loss that does not divide evenly is rounded up.
C15_RoiIsTruncated ==
  [][LET m == state'.performanceMetrics
     IN  IF BigInt(m.initialValue) = 0 THEN m.roi = 0
         ELSE Truncated(m.roi, GainOf(m), BigInt(m.initialValue))]_vars

\* The ROI of a loss that does not divide evenly was computed.
C15_Witness ==
  /\ clock = 1
  /\ BigInt(state.performanceMetrics.initialValue) > 0
  /\ GainOf(state.performanceMetrics) < 0
  /\ GainOf(state.performanceMetrics)
       % BigInt(state.performanceMetrics.initialValue) # 0
  /\ state.performanceMetrics.roi < 0

\* ----------------------------------------------------------------- getState
\* C16: what a reader sees through a value returned by getState() stays
\* as it was at the call: no later step of a start() or of a tick changes
\* the currentBalance, performanceMetrics or activeStrategies seen
\* through it.
C16_SnapshotImmutable ==
  [][(snapshot.held /\ snapshot' = snapshot) =>
       Through(snapshot)' = snapshot.then]_vars

\* ----------------------------------------------------------- currentBalance
\* In this step the balance asked for by a start() or by a tick arrives.
Refresh ==
  \E k \in Flows :
    proc[k].pc \in {"s_balance", "balance"} /\ proc'[k] # proc[k]

\* C17 as stated: the currentBalance getState() returns is that of the
\* most recently completed tick, or of start() before any: so it changes
\* only in a step that completes a tick or in which start() resolves,
\* never while the tick that read the new value is still in flight.
C17_CompletedTickOnly ==
  [][state'.currentBalance # state.currentBalance =>
       \/ TickEnded'
       \/ StartEnded' /\ ended'.pc = "resolved"]_vars

\* C17 amended: the currentBalance getState() returns is the balance of
\* the most recent refresh, that of start() or of a tick, completed or
\* still in flight, and is never half-updated: it changes only in the
\* step in which a requested balance arrives, to a balance the ledger
\* reports, and together with currentValue.
C17_LatestRefresh ==
  [][state'.currentBalance # state.currentBalance =>
       /\ Refresh
       /\ BigInt(state'.currentBalance) \in ledger
       /\ state'.performanceMetrics.currentValue
            = state'.currentBalance]_vars

\* The first tick, suspended in makeDecision, has changed the balance
\* that start() had read.
C17_Witness ==
  /\ calls = 1
  /\ clock = 1
  /\ proc[1].pc = "d_chain"
  /\ state.currentBalance # state.performanceMetrics.initialValue

\* -------------------------------------------------------------------- start
StartResolved == StartEnded /\ ended.pc = "resolved"

\* C18: when a start() resolves, currentBalance, initialValue and
\* currentValue all hold the balance it read, a balance the ledger
\* reports; it has emitted one event, `started`, carrying that balance;
\* its first tick begins in that very step, after the event; and no step
\* of a tick changes initialValue: only a start() that got its balance
\* does.
C18_StartSeeds ==
  [][/\ StartResolved' =>
          /\ BigInt(state'.currentBalance) \in ledger
          /\ state'.performanceMetrics.initialValue = state'.currentBalance
          /\ state'.performanceMetrics.currentValue = state'.currentBalance
          /\ Len(ended'.ev) = 1
          /\ ended'.ev[1].name = "started"
          /\ ended'.ev[1].tag = state'.currentBalance
          /\ proc[ended'.k].pc = "s_balance"
          /\ proc'[ended'.k].pc = "balance"
          /\ proc'[ended'.k].ev = <<>>
          /\ proc'[ended'.k].now = clock'
          /\ clock' = clock + 1
     /\ state'.performanceMetrics.initialValue
           # state.performanceMetrics.initialValue =>
          /\ StartEnded'
          /\ proc[ended'.k].pc = "s_balance"]_vars

\* A start() resolved with a balance other than the 0 of construction.
C18_Witness ==
  /\ StartResolved
  /\ state.currentBalance = toString(MaxBalance)
  /\ MaxBalance > 0

\* A start() that passed the check of line 63 was rejected before it
\* emitted `started`: validateConnection reported no connection (lines
\* 69-72) or the initial balance could not be read (line 75).
StartFailed ==
  /\ StartEnded
  /\ ended.pc \notin {"resolved", "AlreadyRunning"}
  /\ Count(ended.ev, "started") = 0

Started == {k \in Flows : proc[k].pc # "idle"}

\* C19: a start() whose connectivity validation or initial balance read
\* fails is rejected with that failure, having emitted `error` once and
\* no `started`; it leaves no main loop behind (its control flow is over
\* and no tick has begun), leaves AgentState as it was and does not mark
\* the supervisor Running: isRunning is as before, so FALSE when this was
\* the only start() called, and then the next start() passes the
\* AlreadyRunning check.
C19_FailedStartLeavesNothing ==
  [][StartFailed' =>
       /\ ended'.pc \in {"ConnectionFailure", "BalanceFailure"}
       /\ Count(ended'.ev, "started") = 0
       /\ Count(ended'.ev, "error") = 1
       /\ Started' = Started \ {Cardinality(Started)}
       /\ Cardinality(Started) > 0
       /\ clock' = clock
       /\ state' = state
       /\ isRunning' = isRunning
       /\ calls = 1 => ~isRunning']_vars

\* --------------------------------------------------------------------- stop
\* In this step control flow k begins a tick: it reads the time (line 122)
\* and asks for the balance.
BeginsTick(k) ==
  /\ clock' = clock + 1
  /\ proc'[k].pc = "balance"
  /\ proc'[k].now = clock'

\* C20: once stop() was called and start() is not called again, no tick
\* begins.  Stated for the behaviours with a single start() call, where
\* the flow of that call is no longer `fresh` exactly when stop() was
\* called after it.
C20_NoTickAfterStop ==
  [][\A k \in Flows : (calls = 1 /\ BeginsTick(k)) => proc'[k].fresh]_vars

\* StopEnded: the last step was a stop().
StopEnded == ended.kind = "stop"

\* C21: a stop() called right after a stop() changes nothing and emits
\* nothing: `stopped` is not emitted again by the repeated call.
C21_RepeatedStopSilent ==
  (StopEnded /\ ended.k > 1) => Count(ended.ev, "stopped") = 0

\* -------------------------------------------------------------- event order
\* The event sequences in sight: the events emitted so far by each start()
\* or tick in progress, and those of the start(), tick or stop() that
\* ended in the last step.
EventRuns == {proc[k].ev : k \in Flows} \cup {ended.ev}

TickEvents == {"decision", "executing", "executed", "executionFailed"}

\* An event with a name in names is in sight.
Emitted(names) ==
  \E ev \in EventRuns : \E i \in 1..Len(ev) : ev[i].name \in names

\* Within one tick: `executing` comes after `decision`, `executed` and
\* `executionFailed` after `executing`.
InOrder(ev) ==
  \A i \in 1..Len(ev) :
    /\ ev[i].name = "executing" =>
         \E j \in 1..(i - 1) : ev[j].name = "decision"
    /\ ev[i].name \in {"executed", "executionFailed"} =>
         \E j \in 1..(i - 1) : ev[j].name = "executing"

\* C22 as stated: no `decision`, `executing`, `executed`,
\* `executionFailed`, `error` or `stopped` is emitted before the first
\* `started`, and within each tick `decision` precedes `executing`, which
\* precedes `executed` or `executionFailed`.
C22_StartedFirst ==
  /\ Emitted(TickEvents \cup {"error", "stopped"}) => startedEmitted
  /\ \A ev \in EventRuns : InOrder(ev)

\* C22 amended: no `decision`, `executing`, `executed` or
\* `executionFailed` is emitted before the first `started`, and within
\* each tick `decision` precedes `executing`, which precedes `executed` or
\* `executionFailed`; `error` (of a start() that fails) and `stopped` (of
\* a stop() called at any time) can precede every `started`.
C22_TicksAfterStarted ==
  /\ Emitted(TickEvents) => startedEmitted
  /\ \A ev \in EventRuns : InOrder(ev)

\* A tick ended having emitted `decision`, `executing` and `executed`.
C22_Witness ==
  /\ TickEnded
  /\ Count(ended.ev, "decision") = 1
  /\ Count(ended.ev, "executing") = 1
  /\ Count(ended.ev, "executed") = 1
  /\ startedEmitted

\* ---------------------------------------------------------------- shutdown
\* C23: the process exits with status 0 only once no tick is in flight
\* (a transaction awaiting confirmation included), and a failed startup
\* exits with a status other than 0.
C23_ExitAfterInFlightWork ==
  /\ process.exit = "0" => \A k \in Flows : ~InTick(k)
  /\ (process.exit # "none" /\ ~startedEmitted) => process.exit = "1"

\* ------------------------------------------------------------ reconnection
\* The attempt s of a reconnection sequence settles / reconnect resumes
\* after the attempt s that validated / the delay after the failed attempt
\* s ends in this step.
Settles(s) ==
  s \in connecting /\ s \notin connecting'
    /\ s.kind = "reconnect" /\ s.pc = "validate"

Resubscribes(s) ==
  s \in connecting /\ s \notin connecting'
    /\ s.kind = "reconnect" /\ s.pc = "validated"

DelayEnds(s) ==
  s \in connecting /\ s \notin connecting'
    /\ s.kind = "reconnect" /\ s.pc = "delay"

\* C24: a transport error leaves health false and starts a sequence at
\* its first attempt; a sequence makes at most reconnectAttempts attempts;
\* an attempt that validates the chain id sets health true, and the
\* sequence then re-subscribes and ends without a further attempt; one
\* that fails sets health false; after the last failed attempt no further
\* attempt is made, and when the sequence ends then health is false and
\* getProvider() fails.
C24_BoundedReconnect ==
  [][/\ \A s \in connecting' :
          s.kind = "reconnect" => s.i < reconnectAttempts
     /\ errors' # errors =>
          /\ ~networkHealth'
          /\ ~getProvider'.ok
          /\ \E s \in connecting' \ connecting :
               s.kind = "reconnect" /\ s.i = 0 /\ s.pc = "validate"
     /\ \A s \in connecting :
          /\ (Settles(s) /\ networkHealth') =>
               /\ connecting' \ connecting =
                    {[s EXCEPT !.pc = "validated"]}
               /\ monitored' = monitored
               /\ getProvider'.ok
          /\ Resubscribes(s) =>
               /\ connecting' = connecting \ {s}
               /\ monitored' = Append(monitored, provider)
               /\ networkHealth' = networkHealth
               /\ provider' = provider
          /\ (Settles(s) /\ ~networkHealth') =>
               /\ \E r \in ValidateOutcomes \ {"ok"} :
                    connecting' \ connecting =
                      {[s EXCEPT !.pc = "delay", !.why = r]}
               /\ monitored' = monitored
               /\ ~getProvider'.ok
          /\ (DelayEnds(s) /\ s.i + 1 = reconnectAttempts) =>
               /\ connecting' = connecting \ {s}
               /\ ~networkHealth'
               /\ ~getProvider'.ok
               /\ monitored' = monitored
               /\ provider' = provider]_vars

\* Every reconnection sequence started so far is over and none left a
\* connection that validated: the last one used up its attempts.
Exhausted == errors > 0 /\ connecting = {} /\ ~networkHealth

\* The step in which flow k's timer fires and its tick requests the
\* balance, the first operation of a tick that needs the connection.
TickBegins(k) ==
  proc[k].pc = "sleep" /\ proc'[k].pc = "balance" /\ clock' = clock + 1

\* C25: the step that uses up a reconnection sequence leaves the process
\* running, and the tick that begins once the sequences are used up starts
\* a connection attempt.
C25_ExhaustionRecovered ==
  [][/\ \A s \in connecting :
          (DelayEnds(s) /\ s.i + 1 = reconnectAttempts) =>
            process'.exit = "none"
     /\ \A k \in Flows :
          (Exhausted /\ TickBegins(k)) => connecting' # {}]_vars

\* C26: the sequence whose attempt met another chain id than the
\* configured one makes no further attempt, and health is not set while
\* it is there.
C26_MismatchNotRetried ==
  [][\A s \in connecting :
       (s.pc = "delay" /\ s.why = "mismatch") =>
         /\ ~networkHealth'
         /\ connecting' \subseteq connecting]_vars

\* ------------------------------------------------------------ key custody
\* The step is a call of encryptPrivateKey.
Stores ==
  /\ returned'.op = "encryptPrivateKey"
  /\ returned' # returned \/ keyManager' # keyManager

\* C27: encryptPrivateKey called with a malformed key fails and leaves
\* encryptedKey as it was, and decryptPrivateKey does not fail while a
\* stored key is there.
C27_StoreValidates ==
  [][/\ (Stores /\ ~validatePrivateKey(returned'.arg)) =>
          /\ ~returned'.ok
          /\ keyManager'.encryptedKey = keyManager.encryptedKey
     /\ (returned'.op = "decryptPrivateKey" /\ lastStored.any) =>
          returned'.ok]_vars

\* C28: under every accepted master secret, decryptPrivateKey returns the
\* well-formed key of the last encryptPrivateKey call, the identical
\* string, and fails when no key was stored since construction or since
\* the last clearStoredKey call.
C28_RoundTrip ==
  returned.op = "decryptPrivateKey" =>
    IF lastStored.any
    THEN validatePrivateKey(lastStored.key) =>
           returned.ok /\ returned.value = lastStored.key
    ELSE ~returned.ok /\ returned.error = "No encrypted key available"

\* A key with the prefix was stored under a non-zero IV and came back.
C28_Witness ==
  /\ returned.op = "decryptPrivateKey"
  /\ returned.ok
  /\ lastStored.any
  /\ returned.value = lastStored.key
  /\ Len(returned.value) = KeyDigits + 2
  /\ Before(keyManager.encryptedKey) # toHex(<<0>>)

\* C29: once the WalletManager has its signer, neither its configuration
\* nor its KeyManager holds the key the signer was made of.
C29_NoPlaintextRetained ==
  LET raw == walletManager.wallet.privateKey
  IN  /\ walletManager.keyManager.encryptedKey # raw
      /\ walletManager.config.privateKey # raw

\* ------------------------------------------------------ background events
\* C30: a step of the connection monitor (a block or error notification,
\* a step of initializeConnection or of a reconnection sequence) leaves
\* AgentState, the transaction history and everything else of the agent
\* as they are; AgentState changes only in a step of a start() or of a
\* tick in progress.
C30_BackgroundFrame ==
  [][/\ <<networkHealth, provider, monitored, connecting, errors>>'
          # <<networkHealth, provider, monitored, connecting, errors>> =>
            /\ state' = state
            /\ transactionHistory' = transactionHistory
            /\ isRunning' = isRunning
            /\ lastDecisionTimestamp' = lastDecisionTimestamp
            /\ proc' = proc
            /\ nonce' = nonce
     /\ state' # state =>
          /\ proc' # proc
          /\ \E k \in Flows : proc[k].pc \notin {"idle", "sleep"}]_vars

\* A reconnection sequence ran to its end while a tick that had already
\* refreshed AgentState was in progress.
C30_Witness ==
  /\ errors > 0
  /\ connecting = {}
  /\ provider > 1
  /\ state.currentBalance # InitialState.currentBalance
  /\ \E k \in Flows : proc[k].pc \in {"d_chain", "d_strategy"}

\* ----------------------------------------------------------- construction
\* C31: with a master secret of at least minSecretLength characters and a
\* well-formed signing key, the construction of the agent succeeds: the
\* WalletManager is there with its signer, and the process goes on to
\* start().
C31_ConstructionSucceeds ==
  [][(/\ returned.op = "none"
      /\ returned'.op = "WalletManager"
      /\ validatePrivateKey(returned'.arg)
      /\ returned'.error
           # "Secret key must be at least 32 characters long") =>
       /\ returned'.ok
       /\ walletManager' # NoWalletManager
       /\ process'.exit = "none"]_vars

\* ------------------------------------------------------- stale connections
\* The providers that passed validateNetwork: those subscribed to, and
\* those whose subscription is the next step of their sequence.
Validated ==
  {monitored[i] : i \in 1..Len(monitored)}
    \cup {s.on : s \in {t \in connecting : t.pc = "validated"}}

\* C32: while networkHealth is true, this.provider is a connection that
\* passed the validation of the chain id, and no attempt to validate it is
\* still in progress or has failed.
C32_HealthMeansCurrentValidated ==
  networkHealth =>
    /\ provider \in Validated
    /\ \A s \in connecting : s.pc # "validated" => s.on # provider

\* A transaction is broadcast in this step.
Broadcasts == nonce' = nonce + 1

\* C33: once a reconnection has succeeded and this.provider is the
\* connection it validated, a transaction is broadcast through
\* this.provider.
C33_BroadcastThroughCurrent ==
  [][(Broadcasts /\ provider > 0 /\ provider \in Validated) =>
       \E k \in Flows :
         /\ proc'[k].pc = "tx_wait"
         /\ proc'[k].hash = nonce'
         /\ proc'[k].via = provider]_vars

\* The reconnection sequences in progress.
Sequences == {s \in connecting : s.kind = "reconnect"}

\* C34: at most one reconnection sequence is in progress, so that no more
\* than reconnectAttempts attempts are made for the error notifications
\* that arrive while it runs.
C34_OneSequence == Cardinality(Sequences) <= 1


\* C35: whenever the agent state can be observed, currentBalance equals
\* performanceMetrics.currentValue and performanceMetrics.roi is what
\* updatePerformanceMetrics computes from the current initialValue and
\* currentValue, also after a stop() followed by a start() that seeds
\* initialValue anew.
C35_MetricsConsistent ==
  /\ state.currentBalance = state.performanceMetrics.currentValue
  /\ state.performanceMetrics.roi =
       updatePerformanceMetrics(state).performanceMetrics.roi

\* C36: whenever the agent is running, so that a further start() would be
\* rejected with "Agent is already running", the main loop of some control
\* flow is alive, also when start() failed after it had marked the agent
\* running.
C36_RunningHasLoop == isRunning => \E k \in Flows : Alive(k)
=============================================================================
